---- MODULE Spec2Model ----
(***************************************************************************)
(* Model of the sevenator DX7 patch codec: the RangedValue parameter       *)
(* wrapper and the first-generation codec of src/lib.rs, and the Subrange  *)
(* newtypes and the packed/unpacked codec of src/dx7.rs.                   *)
(*                                                                         *)
(* Two specifications:                                                     *)
(*   SpecRanged  a RangedValue object driven by its constructors and set   *)
(*   Spec        the codec functions applied to inputs drawn from bounded  *)
(*               sets (pc = "idle" -> "done" -> "idle")                    *)
(* A Rust panic is modelled as a result whose ok field is FALSE.           *)
(***************************************************************************)
EXTENDS Integers, Sequences, FiniteSets, TLC

VARIABLES
    rv,      \* lib.rs: the RangedValue object [kind, value, range]
    rvOp,    \* the operation that produced rv: [op, kind, x]
    pc,      \* "idle" or "done"
    call,    \* the codec function applied last: [fn, arg, hasSrc, src]
    ret,     \* its result: [ok, val]; ok = FALSE is a panic
    xml      \* cmd.rs: the locals of run_make_syx and the open elements of
             \* the document its parser is reading

vars == <<rv, rvOp, pc, call, ret, xml>>

(***************************************************************************)
(* Bounds                                                                  *)
(***************************************************************************)
\* inputs are taken within MaxDelta of every range boundary
MaxDelta == 2
\* longest checksum input
MaxDataLen == 3
\* longest voice name tried
MaxNameLen == 12
\* the seeds of the runs that draw random values are 0..MaxSeed
MaxSeed == 1

(***************************************************************************)
(* Integer and bit helpers (u8 arithmetic, crate `bit`)                    *)
(***************************************************************************)
Byte == 0..255

Min(a, b) == IF a < b THEN a ELSE b
Max(a, b) == IF a > b THEN a ELSE b

RECURSIVE Pow2(_)
Pow2(n) == IF n = 0 THEN 1 ELSE 2 * Pow2(n - 1)

\* a | b on u8
RECURSIVE BitOr(_, _)
BitOr(a, b) ==
    IF a = 0 THEN b
    ELSE IF b = 0 THEN a
    ELSE Max(a % 2, b % 2) + 2 * BitOr(a \div 2, b \div 2)

\* a & b on u8
RECURSIVE BitAnd(_, _)
BitAnd(a, b) ==
    IF a = 0 \/ b = 0 THEN 0
    ELSE ((a % 2) * (b % 2)) + 2 * BitAnd(a \div 2, b \div 2)

\* !a on u8
BitNot8(a) == 255 - a

\* a << n on u8: bits shifted out are lost
Shl8(a, n) == (a * Pow2(n)) % 256

\* a >> n on u8
Shr8(a, n) == a \div Pow2(n)

\* BitIndex::bit(i)
Bit(b, i) == (b \div Pow2(i)) % 2 = 1

\* BitIndex::bit_range(lo..hi), hi exclusive
BitRange(b, lo, hi) == (b \div Pow2(lo)) % Pow2(hi - lo)

\* BitIndex::set_bit_range(lo..hi, v)
SetBitRange(b, lo, hi, v) ==
    (b - BitRange(b, lo, hi) * Pow2(lo)) + (v % Pow2(hi - lo)) * Pow2(lo)

\* num::clamp(input, min, max)
Clamp(input, min, max) ==
    IF input < min THEN min ELSE IF input > max THEN max ELSE input

\* a result of a call that returned / that panicked
Ok(v) == [ok |-> TRUE, val |-> v]
Panic == [ok |-> FALSE, val |-> "panic"]

(***************************************************************************)
(* src/lib.rs: RangedValue                                                 *)
(***************************************************************************)
RangeKind == {"OutputLevel", "Rate", "Level", "Coarse", "Fine", "Algorithm"}

make_range(kind) ==
    CASE kind = "OutputLevel" -> [start |-> 0, end |-> 99]
      [] kind = "Rate"        -> [start |-> 0, end |-> 99]
      [] kind = "Level"       -> [start |-> 0, end |-> 99]
      [] kind = "Coarse"      -> [start |-> 0, end |-> 31]
      [] kind = "Fine"        -> [start |-> 0, end |-> 99]
      [] kind = "Algorithm"   -> [start |-> 1, end |-> 32]

RangedValue_default ==
    [kind |-> "OutputLevel", value |-> 0, range |-> make_range("OutputLevel")]

RangedValue_from_byte(kind, initial_value) ==
    LET range == make_range(kind)
        value == IF range.start < 0
                 THEN initial_value - (range.end + 1)
                 ELSE initial_value
    IN [kind |-> kind, range |-> range, value |-> value]

\* a from_int that stores its argument unclamped
RangedValue_from_int_unclamped(kind, initial_value) ==
    [kind |-> kind, range |-> make_range(kind), value |-> initial_value]

RangedValue_from_int(kind, initial_value) ==
    LET range == make_range(kind)
        value == IF initial_value >= range.start /\ initial_value <= range.end
                 THEN initial_value
                 ELSE Clamp(initial_value, range.start, range.end)
    IN [kind |-> kind, range |-> range, value |-> value]

RangedValue_new_min(kind) ==
    LET range == make_range(kind)
    IN [kind |-> kind, range |-> range, value |-> range.start]

RangedValue_new_max(kind) ==
    LET range == make_range(kind)
    IN [kind |-> kind, range |-> range, value |-> range.end]

RangedValue_set(self, new_value) ==
    [self EXCEPT !.value =
        IF new_value >= self.range.start /\ new_value <= self.range.end
        THEN new_value
        ELSE Clamp(new_value, self.range.start, self.range.end)]

RangedValue_get(self) == self.value

RangedValue_as_byte(self) ==
    IF self.range.start < 0
    THEN (self.value + self.range.end + 1) % 256
    ELSE self.value % 256

(***************************************************************************)
(* Byte vectors: Rust indexes from 0, TLA+ sequences from 1                *)
(***************************************************************************)
\* data[i]
At(data, i) == data[i + 1]

\* data[lo..hi].to_vec(), hi exclusive; the caller checks hi <= len
Slice(data, lo, hi) == SubSeq(data, lo + 1, hi)

\* every result of a tuple of results is a value
AllOk(results) == \A i \in DOMAIN results : results[i].ok

(***************************************************************************)
(* src/dx7.rs: the Subrange newtypes.  A value is the wrapped i32.         *)
(***************************************************************************)
SubrangeType == {"UnsignedLevel", "Algorithm", "Detune", "Coarse", "Depth"}

MINIMUM_VALUE(type) ==
    CASE type = "UnsignedLevel" -> 0
      [] type = "Algorithm"     -> 1
      [] type = "Detune"        -> -7
      [] type = "Coarse"        -> 0
      [] type = "Depth"         -> 0

MAXIMUM_VALUE(type) ==
    CASE type = "UnsignedLevel" -> 99
      [] type = "Algorithm"     -> 32
      [] type = "Detune"        -> 7
      [] type = "Coarse"        -> 31
      [] type = "Depth"         -> 7

\* Subrange::get_range
get_range(type) == MINIMUM_VALUE(type)..MAXIMUM_VALUE(type)

\* Subrange::new of the five newtypes: the value, or a panic
Subrange_new(type, value) ==
    IF value \in get_range(type) THEN Ok(value) ELSE Panic

UnsignedLevel_new(value) == Subrange_new("UnsignedLevel", value)
Algorithm_new(value) == Subrange_new("Algorithm", value)
Detune_new(value) == Subrange_new("Detune", value)
Coarse_new(value) == Subrange_new("Coarse", value)
Depth_new(value) == Subrange_new("Depth", value)

\* get_value: asserts the range, then returns the value
UnsignedLevel_get_value(self) ==
    IF self \in get_range("UnsignedLevel") THEN Ok(self) ELSE Panic
Algorithm_get_value(self) ==
    IF self \in get_range("Algorithm") THEN Ok(self) ELSE Panic
\* Detune::get_value asserts the range of UnsignedLevel
Detune_get_value(self) ==
    IF self \in get_range("UnsignedLevel") THEN Ok(self) ELSE Panic
Coarse_get_value(self) ==
    IF self \in get_range("Coarse") THEN Ok(self) ELSE Panic
Depth_get_value(self) ==
    IF self \in get_range("Depth") THEN Ok(self) ELSE Panic

\* as_byte: the value cast to u8
UnsignedLevel_as_byte(self) == self % 256
Algorithm_as_byte(self) == (self - 1) % 256
Detune_as_byte(self) == (self + 7) % 256
Coarse_as_byte(self) == self % 256
Depth_as_byte(self) == self % 256

\* From<u8>
UnsignedLevel_from(value) == UnsignedLevel_new(value)
Algorithm_from(value) == Algorithm_new(value + 1)
Detune_from(value) == Detune_new(value)
Coarse_from(value) == Coarse_new(value)
Depth_from(value) == Depth_new(value)

(***************************************************************************)
(* src/dx7.rs: Transpose                                                   *)
(***************************************************************************)
\* i32 division truncates toward zero
TruncDiv(a, b) == IF a >= 0 THEN a \div b ELSE -((-a) \div b)

Transpose_is_clamped == TRUE

Transpose_new(value) ==
    IF value \in -2..2 THEN Ok(value)
    ELSE IF Transpose_is_clamped THEN Ok(Clamp(value, -2, 2))
    ELSE Panic

Transpose_as_byte(self) == (((self + 2) % 256) * 12) % 256

\* a from_byte that does not bring the byte to -24...24 first
Transpose_from_byte_unshifted(b) ==
    Transpose_new(TruncDiv(b, 12))

Transpose_from_byte(b) ==
    LET semitones == b - 24
    IN Transpose_new(TruncDiv(semitones, 12))

(***************************************************************************)
(* src/dx7.rs: Envelope                                                    *)
(***************************************************************************)
Rates_from_bytes(rates) ==
    LET r == [i \in 1..4 |-> UnsignedLevel_from(rates[i])]
    IN IF AllOk(r) THEN Ok([i \in 1..4 |-> r[i].val]) ELSE Panic

Rates_from_ints(rates) ==
    LET r == [i \in 1..4 |-> UnsignedLevel_new(rates[i])]
    IN IF AllOk(r) THEN Ok([i \in 1..4 |-> r[i].val]) ELSE Panic

Levels_from_bytes(levels) ==
    LET r == [i \in 1..4 |-> UnsignedLevel_from(levels[i])]
    IN IF AllOk(r) THEN Ok([i \in 1..4 |-> r[i].val]) ELSE Panic

Levels_from_ints(levels) ==
    LET r == [i \in 1..4 |-> UnsignedLevel_new(levels[i])]
    IN IF AllOk(r) THEN Ok([i \in 1..4 |-> r[i].val]) ELSE Panic

Envelope_new_rate_level(rates, levels) == [rates |-> rates, levels |-> levels]

\* Envelope::new_rate_level(Rates::from_ints(r), Levels::from_ints(l)) of
\* in-range literals
EnvelopeOf(r, l) ==
    Envelope_new_rate_level(Rates_from_ints(r).val, Levels_from_ints(l).val)

Envelope_new == EnvelopeOf(<<99, 99, 99, 99>>, <<99, 99, 99, 0>>)

Envelope_from_bytes(data) ==
    IF Len(data) < 8 THEN Panic
    ELSE LET rates == Rates_from_bytes(Slice(data, 0, 4))
             levels == Levels_from_bytes(Slice(data, 4, 8))
         IN IF rates.ok /\ levels.ok
            THEN Ok(Envelope_new_rate_level(rates.val, levels.val))
            ELSE Panic

Envelope_from_packed_bytes(data) == Envelope_from_bytes(data)

Envelope_to_bytes(self) ==
    [i \in 1..4 |-> UnsignedLevel_as_byte(self.rates[i])]
        \o [i \in 1..4 |-> UnsignedLevel_as_byte(self.levels[i])]

Envelope_to_packed_bytes(self) == Envelope_to_bytes(self)

(***************************************************************************)
(* src/dx7.rs: ScalingCurve and KeyboardLevelScaling                       *)
(***************************************************************************)
lin_pos == [curve |-> "Linear", positive |-> TRUE]
lin_neg == [curve |-> "Linear", positive |-> FALSE]
exp_pos == [curve |-> "Exponential", positive |-> TRUE]
exp_neg == [curve |-> "Exponential", positive |-> FALSE]

ScalingCurves == {lin_pos, lin_neg, exp_pos, exp_neg}

ScalingCurve_from_byte(b) ==
    CASE b = 0 -> lin_neg
      [] b = 1 -> exp_neg
      [] b = 2 -> exp_pos
      [] b = 3 -> lin_pos
      [] OTHER -> lin_pos

ScalingCurve_to_bytes(self) ==
    CASE self = lin_pos -> 3
      [] self = lin_neg -> 0
      [] self = exp_pos -> 2
      [] self = exp_neg -> 1

KeyboardLevelScaling_new ==
    [breakpoint |-> 60 - 21, left_depth |-> 0, right_depth |-> 0,
     left_curve |-> lin_neg, right_curve |-> lin_neg]

KeyboardLevelScaling_from_bytes(data) ==
    IF Len(data) < 5 THEN Panic
    ELSE Ok([breakpoint |-> At(data, 0),
             left_depth |-> At(data, 1),
             right_depth |-> At(data, 2),
             left_curve |-> ScalingCurve_from_byte(At(data, 3)),
             right_curve |-> ScalingCurve_from_byte(At(data, 4))])

KeyboardLevelScaling_from_packed_bytes(data) ==
    IF Len(data) < 4 THEN Panic
    ELSE Ok([breakpoint |-> At(data, 0),
             left_depth |-> At(data, 1),
             right_depth |-> At(data, 2),
             left_curve |-> ScalingCurve_from_byte(Shr8(At(data, 3), 4)),
             right_curve |-> ScalingCurve_from_byte(BitAnd(At(data, 3), 15))])

KeyboardLevelScaling_to_bytes(self) ==
    <<self.breakpoint, self.left_depth, self.right_depth,
      ScalingCurve_to_bytes(self.left_curve),
      ScalingCurve_to_bytes(self.right_curve)>>

KeyboardLevelScaling_to_packed_bytes(self) ==
    <<self.breakpoint, self.left_depth, self.right_depth,
      BitOr(ScalingCurve_to_bytes(self.left_curve),
            Shl8(ScalingCurve_to_bytes(self.right_curve), 2))>>

(***************************************************************************)
(* src/dx7.rs: Operator                                                    *)
(***************************************************************************)
\* OperatorMode as u8
OperatorMode_as_u8(mode) == IF mode = "Fixed" THEN 1 ELSE 0

Operator_new ==
    [eg |-> Envelope_new,
     kbd_level_scaling |-> KeyboardLevelScaling_new,
     kbd_rate_scaling |-> Depth_new(0).val,
     amp_mod_sens |-> 0,
     key_vel_sens |-> Depth_new(0).val,
     output_level |-> UnsignedLevel_new(0).val,
     mode |-> "Ratio",
     coarse |-> Coarse_new(1).val,
     fine |-> UnsignedLevel_new(0).val,
     detune |-> Detune_new(0).val]

Operator_from_packed_bytes(data) ==
    IF Len(data) < 17 THEN Panic
    ELSE LET eg == Envelope_from_packed_bytes(Slice(data, 0, 8))
             kbd_level_scaling ==
                 KeyboardLevelScaling_from_packed_bytes(Slice(data, 8, 12))
             kbd_rate_scaling == Depth_from(BitRange(At(data, 12), 0, 3))
             key_vel_sens == Depth_from(BitRange(At(data, 13), 2, 5))
             output_level == UnsignedLevel_from(At(data, 14))
             coarse == Coarse_from(BitRange(At(data, 15), 1, 6))
             fine == UnsignedLevel_from(At(data, 16))
             detune == Detune_from(BitRange(At(data, 12), 3, 7))
         IN IF AllOk(<<eg, kbd_level_scaling, kbd_rate_scaling, key_vel_sens,
                       output_level, coarse, fine, detune>>)
            THEN Ok([eg |-> eg.val,
                     kbd_level_scaling |-> kbd_level_scaling.val,
                     kbd_rate_scaling |-> kbd_rate_scaling.val,
                     amp_mod_sens |-> BitRange(At(data, 13), 0, 2),
                     key_vel_sens |-> key_vel_sens.val,
                     output_level |-> output_level.val,
                     mode |-> IF Bit(At(data, 15), 0) THEN "Fixed" ELSE "Ratio",
                     coarse |-> coarse.val,
                     fine |-> fine.val,
                     detune |-> detune.val])
            ELSE Panic

\* Operator::from_bytes: the slices data[0..8] and data[8..13] and the
\* indexes up to data[20] panic on shorter data
Operator_from_bytes(data) ==
    IF Len(data) < 21 THEN Panic
    ELSE LET eg == Envelope_from_bytes(Slice(data, 0, 8))
             kbd_level_scaling == KeyboardLevelScaling_from_bytes(Slice(data, 8, 13))
             kbd_rate_scaling == Depth_from(At(data, 13))
             key_vel_sens == Depth_from(At(data, 15))
             output_level == UnsignedLevel_from(At(data, 16))
             coarse == Coarse_from(At(data, 18))
             fine == UnsignedLevel_from(At(data, 19))
             detune == Detune_from(At(data, 20))
         IN IF AllOk(<<eg, kbd_level_scaling, kbd_rate_scaling, key_vel_sens,
                       output_level, coarse, fine, detune>>)
            THEN Ok([eg |-> eg.val,
                     kbd_level_scaling |-> kbd_level_scaling.val,
                     kbd_rate_scaling |-> kbd_rate_scaling.val,
                     amp_mod_sens |-> At(data, 14),
                     key_vel_sens |-> key_vel_sens.val,
                     output_level |-> output_level.val,
                     mode |-> IF At(data, 17) = 1 THEN "Fixed" ELSE "Ratio",
                     coarse |-> coarse.val,
                     fine |-> fine.val,
                     detune |-> detune.val])
            ELSE Panic

Operator_to_bytes(self) ==
    LET data == Envelope_to_bytes(self.eg)
                  \o KeyboardLevelScaling_to_bytes(self.kbd_level_scaling)
                  \o <<Depth_as_byte(self.kbd_rate_scaling),
                       self.amp_mod_sens,
                       Depth_as_byte(self.key_vel_sens),
                       UnsignedLevel_as_byte(self.output_level),
                       OperatorMode_as_u8(self.mode),
                       Coarse_as_byte(self.coarse),
                       UnsignedLevel_as_byte(self.fine),
                       Detune_as_byte(self.detune)>>
    \* assert_eq!(data.len(), 21)
    IN IF Len(data) = 21 THEN Ok(data) ELSE Panic

\* Display for Operator: the numbers it writes, each gotten with get_value
Operator_fmt(self) ==
    LET kbd_rate_scaling == Depth_get_value(self.kbd_rate_scaling)
        key_vel_sens == Depth_get_value(self.key_vel_sens)
        output_level == UnsignedLevel_get_value(self.output_level)
        coarse == Coarse_get_value(self.coarse)
        fine == UnsignedLevel_get_value(self.fine)
        detune == Detune_get_value(self.detune)
    IN IF kbd_rate_scaling.ok /\ key_vel_sens.ok /\ output_level.ok
            /\ coarse.ok /\ fine.ok /\ detune.ok
       THEN Ok([kbd_rate_scaling |-> kbd_rate_scaling.val,
                amp_mod_sens |-> self.amp_mod_sens,
                key_vel_sens |-> key_vel_sens.val,
                output_level |-> output_level.val,
                mode |-> self.mode,
                coarse |-> coarse.val,
                fine |-> fine.val,
                detune |-> detune.val])
       ELSE Panic

\* a to_packed_bytes that writes detune and kbd_rate_scaling in swapped places
Operator_to_packed_bytes_swapped(self) ==
    Ok(Envelope_to_packed_bytes(self.eg)
        \o KeyboardLevelScaling_to_packed_bytes(self.kbd_level_scaling)
        \o <<BitOr(Detune_as_byte(self.detune),
                   Shl8(Depth_as_byte(self.kbd_rate_scaling), 3)),
             BitOr(self.amp_mod_sens, Shl8(Depth_as_byte(self.key_vel_sens), 2)),
             UnsignedLevel_as_byte(self.output_level),
             BitOr(OperatorMode_as_u8(self.mode),
                   Shl8(Coarse_as_byte(self.coarse), 1)),
             UnsignedLevel_as_byte(self.fine)>>)

Operator_to_packed_bytes(self) ==
    LET eg_data == Envelope_to_packed_bytes(self.eg)
        kls_data == KeyboardLevelScaling_to_packed_bytes(self.kbd_level_scaling)
        detune == Detune_as_byte(self.detune)
        byte12 == BitOr(Depth_as_byte(self.kbd_rate_scaling), Shl8(detune, 3))
        byte13 == BitOr(self.amp_mod_sens,
                        Shl8(Depth_as_byte(self.key_vel_sens), 2))
        output_level == UnsignedLevel_get_value(self.output_level)
        byte15 == BitOr(OperatorMode_as_u8(self.mode),
                        Shl8(Coarse_as_byte(self.coarse), 1))
        fine == UnsignedLevel_get_value(self.fine)
    IN IF output_level.ok /\ fine.ok
       THEN Ok(eg_data \o kls_data
                \o <<byte12, byte13, UnsignedLevel_as_byte(self.output_level),
                     byte15, UnsignedLevel_as_byte(self.fine)>>)
       ELSE Panic

(***************************************************************************)
(* src/dx7.rs: Lfo                                                         *)
(***************************************************************************)
LfoWaveform == <<"Triangle", "SawDown", "SawUp", "Square", "Sine",
                 "SampleAndHold">>

\* LfoWaveform as u8
LfoWaveform_as_u8(wave) == (CHOOSE i \in DOMAIN LfoWaveform : LfoWaveform[i] = wave) - 1

Lfo_new ==
    [speed |-> UnsignedLevel_new(35).val, delay |-> UnsignedLevel_new(0).val,
     pmd |-> UnsignedLevel_new(0).val, amd |-> UnsignedLevel_new(0).val,
     sync |-> TRUE, wave |-> "Triangle", pitch_mod_sens |-> Depth_new(0).val]

Lfo_from_bytes(data) ==
    IF Len(data) < 7 THEN Panic
    ELSE LET speed == UnsignedLevel_from(At(data, 0))
             delay == UnsignedLevel_from(At(data, 1))
             pmd == UnsignedLevel_from(At(data, 2))
             amd == UnsignedLevel_from(At(data, 3))
             pitch_mod_sens == Depth_from(At(data, 6))
         IN IF AllOk(<<speed, delay, pmd, amd, pitch_mod_sens>>)
            THEN Ok([speed |-> speed.val, delay |-> delay.val,
                     pmd |-> pmd.val, amd |-> amd.val,
                     sync |-> At(data, 4) = 1,
                     wave |-> IF At(data, 5) <= 5 THEN LfoWaveform[At(data, 5) + 1]
                              ELSE "Triangle",
                     pitch_mod_sens |-> pitch_mod_sens.val])
            ELSE Panic

\* a from_packed_bytes that has no arm for the waveform values 6 and 7
Lfo_from_packed_bytes_strict(data) ==
    IF Len(data) < 5 \/ BitRange(At(data, 4), 1, 4) > 5 THEN Panic
    ELSE LET speed == UnsignedLevel_from(At(data, 0))
             delay == UnsignedLevel_from(At(data, 1))
             pmd == UnsignedLevel_from(At(data, 2))
             amd == UnsignedLevel_from(At(data, 3))
             pitch_mod_sens == Depth_from(BitRange(At(data, 4), 4, 7))
         IN IF AllOk(<<speed, delay, pmd, amd, pitch_mod_sens>>)
            THEN Ok([speed |-> speed.val, delay |-> delay.val,
                     pmd |-> pmd.val, amd |-> amd.val,
                     sync |-> Bit(At(data, 4), 0),
                     wave |-> LfoWaveform[BitRange(At(data, 4), 1, 4) + 1],
                     pitch_mod_sens |-> pitch_mod_sens.val])
            ELSE Panic

Lfo_from_packed_bytes(data) ==
    IF Len(data) < 5 THEN Panic
    ELSE LET speed == UnsignedLevel_from(At(data, 0))
             delay == UnsignedLevel_from(At(data, 1))
             pmd == UnsignedLevel_from(At(data, 2))
             amd == UnsignedLevel_from(At(data, 3))
             w == BitRange(At(data, 4), 1, 4)
             pitch_mod_sens == Depth_from(BitRange(At(data, 4), 4, 7))
         IN IF AllOk(<<speed, delay, pmd, amd, pitch_mod_sens>>)
            THEN Ok([speed |-> speed.val, delay |-> delay.val,
                     pmd |-> pmd.val, amd |-> amd.val,
                     sync |-> Bit(At(data, 4), 0),
                     wave |-> IF w <= 5 THEN LfoWaveform[w + 1] ELSE "Triangle",
                     pitch_mod_sens |-> pitch_mod_sens.val])
            ELSE Panic

\* a to_packed_bytes that puts pitch_mod_sens one bit too low
Lfo_to_packed_bytes_pms_at_3(self) ==
    LET b0 == IF self.sync THEN 1 ELSE 0
        b1 == SetBitRange(b0, 1, 4, LfoWaveform_as_u8(self.wave))
        b116 == SetBitRange(b1, 3, 6, Depth_as_byte(self.pitch_mod_sens))
    IN <<UnsignedLevel_as_byte(self.speed), UnsignedLevel_as_byte(self.delay),
         UnsignedLevel_as_byte(self.pmd), UnsignedLevel_as_byte(self.amd),
         b116>>

Lfo_to_packed_bytes(self) ==
    LET b0 == IF self.sync THEN 1 ELSE 0
        b1 == SetBitRange(b0, 1, 4, LfoWaveform_as_u8(self.wave))
        b116 == SetBitRange(b1, 4, 7, Depth_as_byte(self.pitch_mod_sens))
    IN <<UnsignedLevel_as_byte(self.speed), UnsignedLevel_as_byte(self.delay),
         UnsignedLevel_as_byte(self.pmd), UnsignedLevel_as_byte(self.amd),
         b116>>

(***************************************************************************)
(* src/dx7.rs: Voice.  A name is the sequence of its bytes (ASCII).        *)
(***************************************************************************)
OPERATOR_COUNT == 6

SPACE == 32

\* format!("{:<10}", name): pads with spaces up to 10 characters, and leaves
\* a longer name as it is
PadName(name) ==
    IF Len(name) >= 10 THEN name
    ELSE name \o [i \in 1..(10 - Len(name)) |-> SPACE]

\* String::from_utf8(bytes).unwrap(): ASCII bytes are a string; a byte that
\* is no part of a UTF-8 sequence is an error, and unwrap panics
String_from_utf8_unwrap(bytes) ==
    IF \A i \in DOMAIN bytes : bytes[i] < 128 THEN Ok(bytes) ELSE Panic

\* Voice::from_bytes: the name's slice data[145..155] panics on data shorter
\* than 155 bytes, if no earlier slice has
Voice_from_bytes(data) ==
    IF Len(data) < 155 THEN Panic
    ELSE LET op1 == Operator_from_bytes(Slice(data, 105, 127))
             op2 == Operator_from_bytes(Slice(data, 84, 106))
             op3 == Operator_from_bytes(Slice(data, 63, 85))
             op4 == Operator_from_bytes(Slice(data, 42, 64))
             op5 == Operator_from_bytes(Slice(data, 21, 43))
             op6 == Operator_from_bytes(Slice(data, 0, 22))
             peg == Envelope_from_bytes(Slice(data, 126, 134))
             alg == Algorithm_from(At(data, 134))
             feedback == Depth_from(At(data, 135))
             lfo == Lfo_from_bytes(Slice(data, 137, 144))
             transpose == Transpose_from_byte(At(data, 144))
             name == String_from_utf8_unwrap(Slice(data, 145, 155))
         IN IF AllOk(<<op1, op2, op3, op4, op5, op6, peg, alg, feedback, lfo,
                       transpose, name>>)
            THEN Ok([operators |-> <<op1.val, op2.val, op3.val, op4.val,
                                     op5.val, op6.val>>,
                     peg |-> peg.val,
                     alg |-> alg.val,
                     feedback |-> feedback.val,
                     osc_sync |-> At(data, 136) = 1,
                     lfo |-> lfo.val,
                     transpose |-> transpose.val,
                     name |-> name.val,
                     op_flags |-> [i \in 1..6 |-> TRUE]])
            ELSE Panic

Voice_from_packed_bytes(data) ==
    IF Len(data) < 128 THEN Panic
    ELSE LET op1 == Operator_from_packed_bytes(Slice(data, 85, 102))
             op2 == Operator_from_packed_bytes(Slice(data, 68, 85))
             op3 == Operator_from_packed_bytes(Slice(data, 51, 68))
             op4 == Operator_from_packed_bytes(Slice(data, 34, 51))
             op5 == Operator_from_packed_bytes(Slice(data, 17, 34))
             op6 == Operator_from_packed_bytes(Slice(data, 0, 17))
             peg == Envelope_from_packed_bytes(Slice(data, 102, 110))
             alg == Algorithm_from(At(data, 110))
             feedback == Depth_from(BitRange(At(data, 111), 0, 5))
             lfo == Lfo_from_packed_bytes(Slice(data, 112, 117))
             transpose == Transpose_from_byte(At(data, 117))
             name == String_from_utf8_unwrap(Slice(data, 118, 128))
         IN IF AllOk(<<op1, op2, op3, op4, op5, op6, peg, alg, feedback, lfo,
                       transpose, name>>)
            THEN Ok([operators |-> <<op1.val, op2.val, op3.val, op4.val,
                                     op5.val, op6.val>>,
                     peg |-> peg.val,
                     alg |-> alg.val,
                     feedback |-> feedback.val,
                     osc_sync |-> Bit(At(data, 111), 3),
                     lfo |-> lfo.val,
                     transpose |-> transpose.val,
                     name |-> name.val,
                     op_flags |-> [i \in 1..6 |-> TRUE]])
            ELSE Panic

\* the operators' packed data, operator 6 first
RECURSIVE OperatorsPacked(_, _)
OperatorsPacked(operators, i) ==
    IF i = 0 THEN <<>>
    ELSE Operator_to_packed_bytes(operators[i]).val
            \o OperatorsPacked(operators, i - 1)

\* a to_packed_bytes that writes operator 1 first
Voice_to_packed_bytes_forward(self) ==
    LET ops == [i \in 1..OPERATOR_COUNT |-> Operator_to_packed_bytes(self.operators[i])]
    IN IF AllOk(ops) /\ Algorithm_get_value(self.alg).ok
       THEN Ok(ops[1].val \o ops[2].val \o ops[3].val \o ops[4].val
                \o ops[5].val \o ops[6].val
                \o Envelope_to_bytes(self.peg)
                \o <<Algorithm_as_byte(self.alg),
                     BitOr(Depth_as_byte(self.feedback),
                           Shl8(IF self.osc_sync THEN 1 ELSE 0, 3))>>
                \o Lfo_to_packed_bytes(self.lfo)
                \o <<Transpose_as_byte(self.transpose)>>
                \o PadName(self.name))
       ELSE Panic

Voice_to_packed_bytes(self) ==
    LET ops == [i \in 1..OPERATOR_COUNT |-> Operator_to_packed_bytes(self.operators[i])]
        peg_data == Envelope_to_bytes(self.peg)
        algorithm == Algorithm_get_value(self.alg)
        byte111 == BitOr(Depth_as_byte(self.feedback),
                         Shl8(IF self.osc_sync THEN 1 ELSE 0, 3))
        lfo_data == Lfo_to_packed_bytes(self.lfo)
        padded_name == PadName(self.name)
    IN IF AllOk(ops) /\ algorithm.ok
       THEN Ok(OperatorsPacked(self.operators, OPERATOR_COUNT)
                \o peg_data
                \o <<Algorithm_as_byte(self.alg), byte111>>
                \o lfo_data
                \o <<Transpose_as_byte(self.transpose)>>
                \o padded_name)
       ELSE Panic

(***************************************************************************)
(* src/dx7.rs: the voices the source constructs                            *)
(***************************************************************************)
make_brass1 ==
    LET kbd_level_scaling ==
            [breakpoint |-> 60 - 21, left_depth |-> 0, right_depth |-> 0,
             left_curve |-> lin_pos, right_curve |-> lin_pos]
        op == [Operator_new EXCEPT !.key_vel_sens = Depth_new(2).val]
        op6 == [op EXCEPT
                  !.eg = EnvelopeOf(<<49, 99, 28, 68>>, <<98, 98, 91, 0>>),
                  !.kbd_level_scaling =
                      [kbd_level_scaling EXCEPT !.left_depth = 54,
                                                !.right_depth = 50,
                                                !.left_curve = exp_neg,
                                                !.right_curve = exp_neg],
                  !.kbd_rate_scaling = Depth_new(4).val,
                  !.output_level = UnsignedLevel_new(82).val]
        op5 == [op EXCEPT
                  !.eg = EnvelopeOf(<<77, 36, 41, 71>>, <<99, 98, 98, 0>>),
                  !.kbd_level_scaling = kbd_level_scaling,
                  !.output_level = UnsignedLevel_new(98).val,
                  !.detune = Detune_new(1).val]
        op4 == [op EXCEPT
                  !.eg = op5.eg,
                  !.kbd_level_scaling = kbd_level_scaling,
                  !.output_level = UnsignedLevel_new(99).val]
        op3 == [op EXCEPT
                  !.eg = EnvelopeOf(<<77, 76, 82, 71>>, <<99, 98, 98, 0>>),
                  !.kbd_level_scaling = kbd_level_scaling,
                  !.output_level = UnsignedLevel_new(99).val,
                  !.detune = Detune_new(-2).val]
        op2 == [op EXCEPT
                  !.eg = EnvelopeOf(<<62, 51, 29, 71>>, <<82, 95, 96, 0>>),
                  !.kbd_level_scaling =
                      [breakpoint |-> 48 - 21, left_depth |-> 0,
                       right_depth |-> 7, left_curve |-> lin_pos,
                       right_curve |-> exp_neg],
                  !.key_vel_sens = Depth_new(0).val,
                  !.output_level = UnsignedLevel_new(86).val,
                  !.coarse = Coarse_new(0).val,
                  !.detune = Detune_new(7).val]
        op1 == [op EXCEPT
                  !.eg = EnvelopeOf(<<72, 76, 99, 71>>, <<99, 88, 96, 0>>),
                  !.kbd_level_scaling =
                      [kbd_level_scaling EXCEPT !.right_depth = 14],
                  !.key_vel_sens = Depth_new(0).val,
                  !.output_level = UnsignedLevel_new(98).val,
                  !.coarse = Coarse_new(0).val,
                  !.detune = Detune_new(7).val]
    IN [operators |-> <<op1, op2, op3, op4, op5, op6>>,
        peg |-> EnvelopeOf(<<84, 95, 95, 60>>, <<50, 50, 50, 50>>),
        alg |-> Algorithm_new(22).val,
        feedback |-> Depth_new(7).val,
        osc_sync |-> TRUE,
        lfo |-> [speed |-> UnsignedLevel_new(37).val,
                 delay |-> UnsignedLevel_new(0).val,
                 pmd |-> UnsignedLevel_new(5).val,
                 amd |-> UnsignedLevel_new(0).val,
                 sync |-> FALSE, wave |-> "Sine",
                 pitch_mod_sens |-> Depth_new(3).val],
        transpose |-> Transpose_new(0).val,
        \* "BRASS   1 "
        name |-> <<66, 82, 65, 83, 83, 32, 32, 32, 49, 32>>,
        op_flags |-> [i \in 1..6 |-> TRUE]]

make_init_voice ==
    LET init_op1 ==
            [eg |-> Envelope_new,
             kbd_level_scaling |-> KeyboardLevelScaling_new,
             kbd_rate_scaling |-> Depth_new(0).val,
             amp_mod_sens |-> 0,
             key_vel_sens |-> Depth_new(0).val,
             output_level |-> UnsignedLevel_new(99).val,
             mode |-> "Ratio",
             coarse |-> Coarse_new(1).val,
             fine |-> UnsignedLevel_new(0).val,
             detune |-> Detune_new(0).val]
        init_op_rest ==
            [init_op1 EXCEPT !.output_level = UnsignedLevel_new(0).val]
    IN [operators |-> <<init_op1, init_op_rest, init_op_rest, init_op_rest,
                        init_op_rest, init_op_rest>>,
        peg |-> EnvelopeOf(<<99, 99, 99, 99>>, <<50, 50, 50, 50>>),
        alg |-> Algorithm_new(1).val,
        feedback |-> Depth_new(0).val,
        osc_sync |-> TRUE,
        lfo |-> [speed |-> UnsignedLevel_new(35).val,
                 delay |-> UnsignedLevel_new(0).val,
                 pmd |-> UnsignedLevel_new(0).val,
                 amd |-> UnsignedLevel_new(0).val,
                 sync |-> TRUE, wave |-> "Triangle",
                 pitch_mod_sens |-> Depth_new(3).val],
        transpose |-> Transpose_new(0).val,
        \* "INIT VOICE"
        name |-> <<73, 78, 73, 84, 32, 86, 79, 73, 67, 69>>,
        op_flags |-> [i \in 1..6 |-> TRUE]]

(***************************************************************************)
(* src/dx7.rs: voice_checksum                                              *)
(***************************************************************************)
\* the loop `for b in data { sum += *b as u32 }`
\* (the bytes lo..hi of the data are added up half by half, which gives the
\* loop's sum and keeps the evaluation of 4096 bytes shallow)
RECURSIVE SumRange(_, _, _)
SumRange(data, lo, hi) ==
    IF lo > hi THEN 0
    ELSE IF lo = hi THEN data[lo]
    ELSE LET mid == (lo + hi) \div 2
         IN SumRange(data, lo, mid) + SumRange(data, mid + 1, hi)

SumBytes(data) == SumRange(data, 1, Len(data))

\* a checksum that forgets the final increment
voice_checksum_no_increment(data) ==
    BitAnd(BitNot8(BitAnd(SumBytes(data), 255)), 127)

voice_checksum(data) ==
    \* the u32 sum does not overflow below 2^24 bytes of data
    LET sum == SumBytes(data)
        c0 == BitAnd(sum, 255)
        c1 == BitNot8(c0)
        c2 == BitAnd(c1, 127)
    IN (c2 + 1) % 256

(***************************************************************************)
(* src/lib.rs: the first-generation codec (encoding only).  Its values are *)
(* RangedValue objects and plain u8 / i8 fields.                           *)
(***************************************************************************)
Lib_EnvelopeGenerator_new_rate(value) == RangedValue_from_int("Rate", value)
Lib_EnvelopeGenerator_new_level(value) == RangedValue_from_int("Level", value)

\* an EnvelopeGenerator literal built with new_rate and new_level
Lib_EnvelopeOf(r, l) ==
    [rate1 |-> Lib_EnvelopeGenerator_new_rate(r[1]),
     rate2 |-> Lib_EnvelopeGenerator_new_rate(r[2]),
     rate3 |-> Lib_EnvelopeGenerator_new_rate(r[3]),
     rate4 |-> Lib_EnvelopeGenerator_new_rate(r[4]),
     level1 |-> Lib_EnvelopeGenerator_new_level(l[1]),
     level2 |-> Lib_EnvelopeGenerator_new_level(l[2]),
     level3 |-> Lib_EnvelopeGenerator_new_level(l[3]),
     level4 |-> Lib_EnvelopeGenerator_new_level(l[4])]

Lib_EnvelopeGenerator_new ==
    Lib_EnvelopeOf(<<99, 99, 99, 99>>, <<99, 99, 99, 0>>)

Lib_EnvelopeGenerator_to_bytes(self) ==
    <<RangedValue_as_byte(self.rate1), RangedValue_as_byte(self.rate2),
      RangedValue_as_byte(self.rate3), RangedValue_as_byte(self.rate4),
      RangedValue_as_byte(self.level1), RangedValue_as_byte(self.level2),
      RangedValue_as_byte(self.level3), RangedValue_as_byte(self.level4)>>

Lib_KeyboardLevelScaling_to_packed_bytes(self) ==
    <<self.breakpoint, self.left_depth, self.right_depth,
      BitOr(ScalingCurve_to_bytes(self.left_curve),
            Shl8(ScalingCurve_to_bytes(self.right_curve), 2))>>

Lib_Operator_new ==
    [eg |-> Lib_EnvelopeGenerator_new,
     kbd_level_scaling |-> KeyboardLevelScaling_new,
     kbd_rate_scaling |-> 0,
     amp_mod_sens |-> 0,
     key_vel_sens |-> 0,
     output_level |-> RangedValue_from_int("OutputLevel", 0),
     mode |-> "Ratio",
     coarse |-> RangedValue_from_int("Coarse", 1),
     fine |-> RangedValue_from_int("Fine", 0),
     detune |-> 0]

Lib_Operator_to_packed_bytes(self) ==
    LET eg_data == Lib_EnvelopeGenerator_to_bytes(self.eg)
        kls_data == Lib_KeyboardLevelScaling_to_packed_bytes(self.kbd_level_scaling)
        byte12 == BitOr(self.kbd_rate_scaling, Shl8((self.detune + 7) % 256, 3))
        byte13 == BitOr(self.amp_mod_sens, Shl8(self.key_vel_sens, 2))
        byte15 == BitOr(OperatorMode_as_u8(self.mode),
                        Shl8(RangedValue_as_byte(self.coarse), 1))
        data == eg_data \o kls_data
                  \o <<byte12, byte13, RangedValue_as_byte(self.output_level),
                       byte15, RangedValue_as_byte(self.fine)>>
    \* assert_eq!(data.len(), 17)
    IN IF Len(data) = 17 THEN Ok(data) ELSE Panic

\* src/lib.rs: EnvelopeGenerator::from_bytes; all eight fields are made with
\* RangeKind::Rate
Lib_EnvelopeGenerator_from_bytes(data) ==
    IF Len(data) < 8 THEN Panic
    ELSE Ok([rate1 |-> RangedValue_from_byte("Rate", At(data, 0)),
             rate2 |-> RangedValue_from_byte("Rate", At(data, 1)),
             rate3 |-> RangedValue_from_byte("Rate", At(data, 2)),
             rate4 |-> RangedValue_from_byte("Rate", At(data, 3)),
             level1 |-> RangedValue_from_byte("Rate", At(data, 4)),
             level2 |-> RangedValue_from_byte("Rate", At(data, 5)),
             level3 |-> RangedValue_from_byte("Rate", At(data, 6)),
             level4 |-> RangedValue_from_byte("Rate", At(data, 7))])

\* src/lib.rs: KeyboardLevelScaling::from_bytes; both matches are on data[3]
Lib_KeyboardLevelScaling_from_bytes(data) ==
    IF Len(data) < 4 THEN Panic
    ELSE Ok([breakpoint |-> At(data, 0),
             left_depth |-> At(data, 1),
             right_depth |-> At(data, 2),
             left_curve |-> ScalingCurve_from_byte(At(data, 3)),
             right_curve |-> ScalingCurve_from_byte(At(data, 3))])

Lib_KeyboardLevelScaling_to_bytes(self) ==
    <<self.breakpoint, self.left_depth, self.right_depth,
      ScalingCurve_to_bytes(self.left_curve),
      ScalingCurve_to_bytes(self.right_curve)>>

\* u8 as i8
AsI8(b) == IF b >= 128 THEN b - 256 ELSE b

\* src/lib.rs: Operator::from_bytes; it indexes data[14] to data[21], and
\* data[21] panics on data of fewer than 22 bytes
Lib_Operator_from_bytes(data) ==
    IF Len(data) < 22 THEN Panic
    ELSE LET eg == Lib_EnvelopeGenerator_from_bytes(Slice(data, 0, 8))
             kbd_level_scaling == Lib_KeyboardLevelScaling_from_bytes(Slice(data, 8, 13))
         IN Ok([eg |-> eg.val,
                kbd_level_scaling |-> kbd_level_scaling.val,
                kbd_rate_scaling |-> At(data, 14),
                amp_mod_sens |-> At(data, 15),
                key_vel_sens |-> At(data, 16),
                output_level |-> RangedValue_from_byte("OutputLevel", At(data, 17)),
                mode |-> IF At(data, 18) = 1 THEN "Fixed" ELSE "Ratio",
                coarse |-> RangedValue_from_byte("Coarse", At(data, 19)),
                fine |-> RangedValue_from_byte("Fine", At(data, 20)),
                detune |-> AsI8(At(data, 21))])

Lib_Operator_to_bytes(self) ==
    LET data == Lib_EnvelopeGenerator_to_bytes(self.eg)
                  \o Lib_KeyboardLevelScaling_to_bytes(self.kbd_level_scaling)
                  \o <<self.kbd_rate_scaling,
                       self.amp_mod_sens,
                       self.key_vel_sens,
                       RangedValue_as_byte(self.output_level),
                       OperatorMode_as_u8(self.mode),
                       RangedValue_as_byte(self.coarse),
                       RangedValue_as_byte(self.fine),
                       (self.detune + 7) % 256>>
    \* assert_eq!(data.len(), 21)
    IN IF Len(data) = 21 THEN Ok(data) ELSE Panic

Lib_Lfo_to_packed_bytes(self) ==
    <<RangedValue_as_byte(self.speed), RangedValue_as_byte(self.delay),
      RangedValue_as_byte(self.pmd), RangedValue_as_byte(self.amd),
      BitOr(IF self.sync THEN 1 ELSE 0, Shl8(LfoWaveform_as_u8(self.wave), 1))>>

Lib_make_init_voice ==
    LET init_kbd_level_scaling ==
            [breakpoint |-> 0, left_depth |-> 0, right_depth |-> 0,
             left_curve |-> lin_neg, right_curve |-> lin_neg]
        init_op1 ==
            [eg |-> Lib_EnvelopeGenerator_new,
             kbd_level_scaling |-> init_kbd_level_scaling,
             kbd_rate_scaling |-> 0,
             amp_mod_sens |-> 0,
             key_vel_sens |-> 0,
             output_level |-> RangedValue_new_max("OutputLevel"),
             mode |-> "Ratio",
             coarse |-> RangedValue_from_int("Coarse", 1),
             fine |-> RangedValue_from_int("Fine", 0),
             detune |-> 0]
        init_op_rest ==
            [init_op1 EXCEPT !.output_level = RangedValue_new_min("OutputLevel")]
    IN [op1 |-> init_op1, op2 |-> init_op_rest, op3 |-> init_op_rest,
        op4 |-> init_op_rest, op5 |-> init_op_rest, op6 |-> init_op_rest,
        peg |-> Lib_EnvelopeOf(<<99, 99, 99, 99>>, <<50, 50, 50, 50>>),
        alg |-> RangedValue_from_int("Algorithm", 1),
        feedback |-> 0,
        osc_sync |-> TRUE,
        lfo |-> [speed |-> RangedValue_from_int("Level", 35),
                 delay |-> RangedValue_new_min("Level"),
                 pmd |-> RangedValue_new_min("Level"),
                 amd |-> RangedValue_new_min("Level"),
                 sync |-> TRUE, wave |-> "Triangle"],
        pitch_mod_sens |-> 3,
        transpose |-> 24,
        \* "INIT VOICE"
        name |-> <<73, 78, 73, 84, 32, 86, 79, 73, 67, 69>>,
        op_flags |-> [i \in 1..6 |-> TRUE]]

Lib_Voice_to_packed_bytes(self) ==
    LET ops == <<Lib_Operator_to_packed_bytes(self.op6),
                 Lib_Operator_to_packed_bytes(self.op5),
                 Lib_Operator_to_packed_bytes(self.op4),
                 Lib_Operator_to_packed_bytes(self.op3),
                 Lib_Operator_to_packed_bytes(self.op2),
                 Lib_Operator_to_packed_bytes(self.op1)>>
        peg_data == Lib_EnvelopeGenerator_to_bytes(self.peg)
        algorithm == RangedValue_get(self.alg)
        \* (algorithm - 1).try_into().unwrap()
        alg_fits == (algorithm - 1) \in Byte
        byte111 == BitOr(self.feedback, Shl8(IF self.osc_sync THEN 1 ELSE 0, 3))
        lfo_data0 == Lib_Lfo_to_packed_bytes(self.lfo)
        lfo_data == [lfo_data0 EXCEPT ![Len(lfo_data0)] =
                        SetBitRange(@, 4, 7, self.pitch_mod_sens)]
        padded_name == PadName(self.name)
        data == ops[1].val \o ops[2].val \o ops[3].val \o ops[4].val
                  \o ops[5].val \o ops[6].val
                  \o peg_data
                  \o <<algorithm - 1, byte111>>
                  \o lfo_data
                  \o <<self.transpose>>
                  \o padded_name
    \* assert_eq!(data.len(), 128)
    IN IF AllOk(ops) /\ alg_fits /\ Len(data) = 128 THEN Ok(data) ELSE Panic

\* src/lib.rs: voice_checksum
Lib_voice_checksum(data) ==
    LET sum == SumBytes(data)
        c0 == BitAnd(sum, 255)
        c1 == BitNot8(c0)
        c2 == BitAnd(c1, 127)
    IN (c2 + 1) % 256

(***************************************************************************)
(* src/dx7.rs: random values.  The values drawn by rand::thread_rng() are  *)
(* any values of the range; here draw number k of a run is a function of   *)
(* the run's seed, so that the runs differ and the draws of a run differ.  *)
(***************************************************************************)
get_random_value(seed, k, lo, hi) == lo + ((seed * (2 * k + 1) + k) % (hi - lo + 1))

\* RandomValue::random_value of a subrange type
Subrange_random_value(type, seed, k) ==
    Subrange_new(type, get_random_value(seed, k, MINIMUM_VALUE(type),
                                        MAXIMUM_VALUE(type))).val

Envelope_new_random(seed, k) ==
    [rates |-> [i \in 1..4 |-> Subrange_random_value("UnsignedLevel", seed, k + i - 1)],
     levels |-> [i \in 1..4 |-> Subrange_random_value("UnsignedLevel", seed, k + 3 + i)]]

Operator_new_random(seed, k) ==
    [eg |-> Envelope_new_random(seed, k),
     kbd_level_scaling |-> KeyboardLevelScaling_new,
     kbd_rate_scaling |-> Depth_new(0).val,
     amp_mod_sens |-> 0,
     key_vel_sens |-> Depth_new(0).val,
     output_level |-> Subrange_random_value("UnsignedLevel", seed, k + 8),
     mode |-> "Ratio",
     coarse |-> Coarse_new(1).val,
     fine |-> UnsignedLevel_new(0).val,
     detune |-> Detune_new(0).val]

Lfo_new_random(seed, k) ==
    [speed |-> Subrange_random_value("UnsignedLevel", seed, k),
     delay |-> Subrange_random_value("UnsignedLevel", seed, k + 1),
     pmd |-> Subrange_random_value("UnsignedLevel", seed, k + 2),
     amd |-> Subrange_random_value("UnsignedLevel", seed, k + 3),
     sync |-> TRUE, wave |-> "Triangle",
     pitch_mod_sens |-> Subrange_random_value("Depth", seed, k + 4)]

make_random_voice(seed) ==
    [operators |-> [i \in 1..OPERATOR_COUNT |-> Operator_new_random(seed, 9 * (i - 1))],
     peg |-> EnvelopeOf(<<99, 99, 99, 99>>, <<50, 50, 50, 50>>),
     alg |-> Subrange_random_value("Algorithm", seed, 54),
     feedback |-> Depth_new(0).val,
     osc_sync |-> TRUE,
     lfo |-> Lfo_new_random(seed, 55),
     transpose |-> Transpose_new(0).val,
     \* "RNDM VOICE"
     name |-> <<82, 78, 68, 77, 32, 86, 79, 73, 67, 69>>,
     op_flags |-> [i \in 1..6 |-> TRUE]]

(***************************************************************************)
(* src/dx7.rs: Cartridge                                                   *)
(***************************************************************************)
VOICE_COUNT == 32

Voice_new ==
    [operators |-> [i \in 1..OPERATOR_COUNT |->
                      [Operator_new EXCEPT !.output_level = UnsignedLevel_new(0).val]],
     peg |-> [Envelope_new EXCEPT !.levels = Levels_from_ints(<<50, 50, 50, 50>>).val],
     alg |-> Algorithm_new(1).val,
     feedback |-> Depth_new(0).val,
     osc_sync |-> TRUE,
     lfo |-> Lfo_new,
     transpose |-> Transpose_new(0).val,
     \* "INIT VOICE"
     name |-> <<73, 78, 73, 84, 32, 86, 79, 73, 67, 69>>,
     op_flags |-> [i \in 1..6 |-> TRUE]]

\* vec![Default::default(); VOICE_COUNT]
Cartridge_default == [voices |-> [i \in 1..VOICE_COUNT |-> Voice_new]]

\* the loop of from_packed_bytes: the slice data[offset..offset + 128] of a
\* voice panics when the data ends before offset + 128; data after the 32nd
\* voice is never looked at
Cartridge_from_packed_bytes(data) ==
    IF Len(data) < VOICE_COUNT * 128 THEN Panic
    ELSE LET voices == [i \in 1..VOICE_COUNT |->
                          Voice_from_packed_bytes(Slice(data, 128 * (i - 1), 128 * i))]
         IN IF AllOk(voices)
            THEN Ok([voices |-> [i \in 1..VOICE_COUNT |-> voices[i].val]])
            ELSE Panic

\* the packed data of the first n voices, in voice order
RECURSIVE VoicesPacked(_, _)
VoicesPacked(voices, n) ==
    IF n = 0 THEN <<>>
    ELSE VoicesPacked(voices, n - 1) \o Voice_to_packed_bytes(voices[n]).val

\* a to_packed_bytes that writes the last voice first
RECURSIVE VoicesPackedReversed(_, _)
VoicesPackedReversed(voices, n) ==
    IF n = 0 THEN <<>>
    ELSE Voice_to_packed_bytes(voices[n]).val \o VoicesPackedReversed(voices, n - 1)

Cartridge_to_packed_bytes_reversed(self) ==
    Ok(VoicesPackedReversed(self.voices, Len(self.voices)))

Cartridge_to_packed_bytes(self) ==
    IF \A i \in DOMAIN self.voices : Voice_to_packed_bytes(self.voices[i]).ok
    THEN Ok(VoicesPacked(self.voices, Len(self.voices)))
    ELSE Panic

make_random_cartridge(seed) ==
    [voices |-> [i \in 1..VOICE_COUNT |-> make_random_voice(VOICE_COUNT * seed + i)]]

\* dump of the bytes read from the file: the voices it prints.  Indexing
\* cartridge.voices past its end panics.
dump(data, voice_number) ==
    IF Len(data) < 4 THEN Panic
    ELSE IF At(data, 3) = 0
    THEN IF Len(data) < 6 THEN Panic
         ELSE LET voice == Voice_from_bytes(Slice(data, 6, Len(data)))
              IN IF voice.ok THEN Ok(<<voice.val>>) ELSE Panic
    ELSE IF At(data, 3) = 9
    THEN IF Len(data) < 6 THEN Panic
         ELSE LET cartridge == Cartridge_from_packed_bytes(Slice(data, 6, Len(data)))
              IN IF ~cartridge.ok THEN Panic
                 ELSE IF voice_number = 0 THEN Ok(cartridge.val.voices)
                 ELSE IF voice_number - 1 >= Len(cartridge.val.voices) THEN Panic
                 ELSE Ok(<<cartridge.val.voices[voice_number - 1 + 1]>>)
    ELSE Ok(<<>>)

\* generate_cartridge up to the call of Message::new_manufacturer: the
\* manufacturer and the payload of the message
generate_cartridge(seed) ==
    LET cartridge == make_random_cartridge(seed)
        cartridge_data == Cartridge_to_packed_bytes(cartridge)
        cartridge_checksum == voice_checksum(cartridge_data.val)
    IN IF cartridge_data.ok
       THEN Ok([manufacturer |-> 67,
                payload |-> <<0, 9, 32, 0>> \o cartridge_data.val
                              \o <<cartridge_checksum>>])
       ELSE Panic

(***************************************************************************)
(* src/lib.rs: random voices and run()                                     *)
(***************************************************************************)
\* RangedValue::random_value
Lib_random_value(self, seed, k) ==
    get_random_value(seed, k, self.range.start, self.range.end)

Lib_EnvelopeGenerator_new_random_rate(seed, k) ==
    RangedValue_from_int("Rate",
        Lib_random_value(Lib_EnvelopeGenerator_new_rate(0), seed, k))

Lib_EnvelopeGenerator_new_random_level(seed, k) ==
    RangedValue_from_int("Level",
        Lib_random_value(Lib_EnvelopeGenerator_new_level(0), seed, k))

Lib_make_random_eg(seed, k) ==
    [rate1 |-> Lib_EnvelopeGenerator_new_random_rate(seed, k),
     rate2 |-> Lib_EnvelopeGenerator_new_random_rate(seed, k + 1),
     rate3 |-> Lib_EnvelopeGenerator_new_random_rate(seed, k + 2),
     rate4 |-> Lib_EnvelopeGenerator_new_random_rate(seed, k + 3),
     level1 |-> Lib_EnvelopeGenerator_new_random_level(seed, k + 4),
     level2 |-> Lib_EnvelopeGenerator_new_random_level(seed, k + 5),
     level3 |-> Lib_EnvelopeGenerator_new_random_level(seed, k + 6),
     level4 |-> Lib_EnvelopeGenerator_new_random_level(seed, k + 7)]

Lib_Operator_new_random_output_level(seed, k) ==
    RangedValue_from_int("OutputLevel",
        Lib_random_value(RangedValue_new_min("OutputLevel"), seed, k))

Lib_make_random_operator(seed, k) ==
    [eg |-> Lib_make_random_eg(seed, k),
     kbd_level_scaling |-> KeyboardLevelScaling_new,
     kbd_rate_scaling |-> 0,
     amp_mod_sens |-> 0,
     key_vel_sens |-> 0,
     output_level |-> Lib_Operator_new_random_output_level(seed, k + 8),
     mode |-> "Ratio",
     coarse |-> RangedValue_from_int("Coarse", 1),
     fine |-> RangedValue_from_int("Fine", 0),
     detune |-> 0]

Lib_Lfo_new_random(seed, k) ==
    LET level == RangedValue_new_min("Level")
    IN [speed |-> RangedValue_from_int("Level", Lib_random_value(level, seed, k)),
        delay |-> RangedValue_from_int("Level", Lib_random_value(level, seed, k + 1)),
        pmd |-> RangedValue_from_int("Level", Lib_random_value(level, seed, k + 2)),
        amd |-> RangedValue_from_int("Level", Lib_random_value(level, seed, k + 3)),
        sync |-> TRUE, wave |-> "Triangle"]

Lib_make_random_voice(seed) ==
    [op1 |-> Lib_make_random_operator(seed, 0),
     op2 |-> Lib_make_random_operator(seed, 9),
     op3 |-> Lib_make_random_operator(seed, 18),
     op4 |-> Lib_make_random_operator(seed, 27),
     op5 |-> Lib_make_random_operator(seed, 36),
     op6 |-> Lib_make_random_operator(seed, 45),
     peg |-> Lib_EnvelopeOf(<<99, 99, 99, 99>>, <<50, 50, 50, 50>>),
     alg |-> RangedValue_from_int("Algorithm", 1),
     feedback |-> 0,
     osc_sync |-> TRUE,
     lfo |-> Lib_Lfo_new_random(seed, 54),
     pitch_mod_sens |-> 3,
     transpose |-> 24,
     \* "RNDM VOICE"
     name |-> <<82, 78, 68, 77, 32, 86, 79, 73, 67, 69>>,
     op_flags |-> [i \in 1..6 |-> TRUE]]

\* vec![make_random_voice(); VOICE_COUNT]: one random voice, cloned
Lib_make_random_cartridge(seed) ==
    [i \in 1..VOICE_COUNT |-> Lib_make_random_voice(seed)]

\* the loop of run() over the voices of the cartridge
RECURSIVE Lib_CartridgeData(_, _)
Lib_CartridgeData(cartridge, n) ==
    IF n = 0 THEN <<>>
    ELSE Lib_CartridgeData(cartridge, n - 1)
            \o Lib_Voice_to_packed_bytes(cartridge[n]).val

\* the header of run()
Lib_header == <<240, 67, 0, 9, 32, 0>>

\* a run() that computes the checksum after it has inserted the header
Lib_run_checksum_of_message(seed) ==
    LET cartridge == Lib_make_random_cartridge(seed)
        cartridge_data == Lib_header \o Lib_CartridgeData(cartridge, Len(cartridge))
    IN Ok(cartridge_data \o <<Lib_voice_checksum(cartridge_data), 247>>)

\* run(): the bytes written to the file
Lib_run(seed) ==
    LET cartridge == Lib_make_random_cartridge(seed)
        voices_ok == \A i \in DOMAIN cartridge :
                        Lib_Voice_to_packed_bytes(cartridge[i]).ok
        cartridge_data == Lib_CartridgeData(cartridge, Len(cartridge))
        cartridge_checksum == Lib_voice_checksum(cartridge_data)
    IN IF voices_ok
       THEN Ok(Lib_header \o cartridge_data \o <<cartridge_checksum, 247>>)
       ELSE Panic

(***************************************************************************)
(* src/cmd.rs: run_dump, for a file that Cartridge::parse has parsed into  *)
(* a cartridge: the voices it prints.  number is the Option<u8> of the     *)
(* command line.  The usize subtraction n - 1 for n = 0 panics in a build  *)
(* with overflow checks and wraps to usize::MAX without them, and then the *)
(* index panics: the outcome is a panic in every build.                    *)
(***************************************************************************)
None == [some |-> FALSE, n |-> 0]
Some(n) == [some |-> TRUE, n |-> n]

run_dump(cartridge, number) ==
    IF number.some
    THEN IF number.n - 1 < 0 THEN Panic
         ELSE IF number.n - 1 >= Len(cartridge.voices) THEN Panic
         ELSE Ok(<<cartridge.voices[number.n - 1 + 1]>>)
    ELSE Ok(cartridge.voices)

(***************************************************************************)
(* src/cmd.rs: run_make_syx, the import of a cartridge from XML.  The      *)
(* parser hands the loop one event at a time; the loop keeps its state in  *)
(* locals.  Voice, Operator, Envelope and the other values are those of    *)
(* the sevenate crate: they are Copy (Voice is Clone), and their defaults  *)
(* are taken to be those of the same types in dx7.rs.                      *)
(***************************************************************************)
\* the most <voice> elements and the most <operator> elements of one parent
\* in the documents read
MaxVoices == 2
MaxOperators == 7

XmlKeyboardLevelScaling_new ==
    [breakpoint |-> 39,
     left |-> [depth |-> 0, curve |-> lin_neg],
     right |-> [depth |-> 0, curve |-> lin_neg]]

XmlOperator_new ==
    [output_level |-> 0, mode |-> "Ratio", coarse |-> 1, fine |-> 0,
     detune |-> 0, amp_mod_sens |-> 0, key_vel_sens |-> 0,
     kbd_rate_scaling |-> 0,
     eg |-> Envelope_new,
     kbd_level_scaling |-> XmlKeyboardLevelScaling_new]

XmlLfo_new ==
    [speed |-> 35, delay |-> 0, pmd |-> 0, amd |-> 0, sync |-> TRUE,
     waveform |-> "Triangle"]

XmlVoice_default ==
    [name |-> "INIT VOICE", alg |-> 1, transpose |-> 0, feedback |-> 0,
     osc_sync |-> TRUE, pitch_mod_sens |-> 0,
     peg |-> [Envelope_new EXCEPT !.levels = <<50, 50, 50, 50>>],
     lfo |-> XmlLfo_new,
     operators |-> [i \in 1..OPERATOR_COUNT |-> XmlOperator_new]]

\* an element the parser has open: its name, the number of its children so
\* far and the place of the last one in the order of the children
Frame(name) == [name |-> name, n |-> 0, last |-> 0]

\* the locals of run_make_syx before the first event
XmlInit ==
    [status |-> "running",
     stack |-> <<Frame("#document")>>,
     cartridge |-> [voices |-> [i \in 1..VOICE_COUNT |-> XmlVoice_default]],
     voice_index |-> 0,
     voice |-> XmlVoice_default,
     operator_index |-> 0,
     operator |-> XmlOperator_new,
     keyboard_level_scaling |-> XmlKeyboardLevelScaling_new,
     eg |-> Envelope_new,
     inside_eg |-> FALSE,
     inside_rates |-> FALSE,
     inside_levels |-> FALSE,
     rates |-> <<0, 0, 0, 0>>,
     levels |-> <<0, 0, 0, 0>>,
     inside_operator |-> FALSE,
     inside_voice |-> FALSE,
     lfo |-> XmlLfo_new]

XmlCurve(value) ==
    CASE value = "+LIN" -> lin_pos
      [] value = "-LIN" -> lin_neg
      [] value = "+EXP" -> exp_pos
      [] value = "-EXP" -> exp_neg
      [] OTHER -> lin_pos

XmlWaveform(value) ==
    CASE value = "triangle" -> "Triangle"
      [] value = "saw-down" -> "SawDown"
      [] value = "saw-up" -> "SawUp"
      [] value = "square" -> "Square"
      [] value = "sine" -> "Sine"
      [] value = "sample-and-hold" -> "SampleAndHold"
      [] OTHER -> "Sine"

\* the arm of XmlEvent::StartElement, for in-range attribute values
StartElement(s, name, a) ==
    CASE name = "voice" ->
            [s EXCEPT !.inside_voice = TRUE,
                      !.voice.name = a.name,
                      !.voice.alg = a.algorithm,
                      !.voice.transpose = a.transpose,
                      !.voice.feedback = a.feedback,
                      !.voice.osc_sync = a.oscillatorSync,
                      !.voice.pitch_mod_sens = a.pitchModulationSensitivity]
      [] name = "operator" ->
            [s EXCEPT !.inside_operator = TRUE,
                      !.operator.output_level = a.level,
                      !.operator.mode = IF a.mode = "ratio" THEN "Ratio" ELSE "Fixed",
                      !.operator.coarse = a.coarse,
                      !.operator.fine = a.fine,
                      !.operator.detune = a.detune,
                      !.operator.amp_mod_sens = a.amplitudeModulationSensitivity,
                      !.operator.key_vel_sens = a.keyVelocitySensitivity,
                      !.operator.kbd_rate_scaling = a.keyboardRateScaling]
      [] name = "keyboardLevelScaling" ->
            [s EXCEPT !.keyboard_level_scaling.breakpoint = a.breakpoint]
      [] name = "depth" ->
            [s EXCEPT !.keyboard_level_scaling.left.depth = a.left,
                      !.keyboard_level_scaling.right.depth = a.right]
      [] name = "curve" ->
            [s EXCEPT !.keyboard_level_scaling.left.curve = XmlCurve(a.left),
                      !.keyboard_level_scaling.right.curve = XmlCurve(a.right)]
      [] name = "eg" -> [s EXCEPT !.inside_eg = TRUE]
      [] name = "rates" -> [s EXCEPT !.inside_rates = TRUE]
      [] name = "levels" -> [s EXCEPT !.inside_levels = TRUE]
      [] name = "lfo" ->
            [s EXCEPT !.lfo.speed = a.speed,
                      !.lfo.delay = a.delay,
                      !.lfo.pmd = a.pmd,
                      !.lfo.amd = a.amd,
                      !.lfo.sync = a.sync,
                      !.lfo.waveform = XmlWaveform(a.wave)]
      [] OTHER -> s

\* the arm of XmlEvent::Characters, for a text of at most four in-range
\* numbers: the parts overwrite the first entries of rates or of levels
Characters(s, text) ==
    IF s.inside_rates
    THEN [s EXCEPT !.rates = [i \in 1..4 |-> IF i <= Len(text) THEN text[i] ELSE @[i]]]
    ELSE IF s.inside_levels
    THEN [s EXCEPT !.levels = [i \in 1..4 |-> IF i <= Len(text) THEN text[i] ELSE @[i]]]
    ELSE s

\* the arm of XmlEvent::EndElement.  An index past the end of
\* cartridge.voices or of the six operators panics.  voice.operators is an
\* array of Copy values: 'let mut ops = voice.operators' copies it, and the
\* assignment to ops[operator_index] changes the copy alone.
EndElement(s, name) ==
    CASE name = "voice" ->
            IF s.voice_index >= VOICE_COUNT
            THEN [s EXCEPT !.inside_voice = FALSE, !.status = "panic"]
            ELSE [s EXCEPT !.inside_voice = FALSE,
                           !.cartridge.voices[s.voice_index + 1] = s.voice,
                           !.voice_index = @ + 1,
                           !.operator_index = 0]
      [] name = "operator" ->
            IF s.operator_index >= OPERATOR_COUNT
            THEN [s EXCEPT !.inside_operator = FALSE, !.status = "panic"]
            ELSE [s EXCEPT !.inside_operator = FALSE,
                           !.operator_index = @ + 1]
      [] name = "keyboard_level_scaling" ->
            [s EXCEPT !.operator.kbd_level_scaling = s.keyboard_level_scaling]
      [] name = "rates" ->
            [s EXCEPT !.inside_rates = FALSE, !.eg.rates = s.rates]
      [] name = "levels" ->
            [s EXCEPT !.inside_levels = FALSE, !.eg.levels = s.levels]
      [] name = "eg" ->
            IF s.inside_voice
            THEN [s EXCEPT !.inside_eg = FALSE, !.voice.peg = s.eg]
            ELSE IF s.inside_operator
            THEN [s EXCEPT !.inside_eg = FALSE, !.operator.eg = s.eg]
            ELSE [s EXCEPT !.inside_eg = FALSE]
      [] name = "lfo" -> [s EXCEPT !.voice.lfo = s.lfo]
      [] OTHER -> s

(***************************************************************************)
(* Inputs of the RangedValue operations                                    *)
(***************************************************************************)
\* the range boundaries of all kinds
Boundaries == UNION {{make_range(k).start, make_range(k).end} : k \in RangeKind}

\* i16 arguments: around every boundary, the tests' 16, 17, 100 and -100,
\* and the extremes of i16
IntInputs ==
    UNION {(b - MaxDelta)..(b + MaxDelta) : b \in Boundaries}
        \cup {16, 17, 100, -100, -32768, 32767}

\* u8 arguments: around every boundary, and large bytes
ByteInputs ==
    (UNION {(b - MaxDelta)..(b + MaxDelta) : b \in Boundaries}
        \cup {16, 128, 192, 200, 255}) \cap Byte

(***************************************************************************)
(* SpecRanged: a RangedValue under its constructors and set                *)
(***************************************************************************)
\* a call: the function, its argument and, when the argument was produced by
\* encoding a value, that value (src)
Call(fn, arg) == [fn |-> fn, arg |-> arg, hasSrc |-> FALSE, src |-> 0]
CallOn(fn, arg, src) == [fn |-> fn, arg |-> arg, hasSrc |-> TRUE, src |-> src]
NoCall == Call("none", 0)
NoRet == [ok |-> TRUE, val |-> 0]

Init ==
    /\ rv = RangedValue_default
    /\ rvOp = [op |-> "default", kind |-> "OutputLevel", x |-> 0]
    /\ pc = "idle"
    /\ call = NoCall
    /\ ret = NoRet
    /\ xml = XmlInit

FromByte(kind, b) ==
    /\ rv' = RangedValue_from_byte(kind, b)
    /\ rvOp' = [op |-> "from_byte", kind |-> kind, x |-> b]
    /\ UNCHANGED <<pc, call, ret, xml>>

FromInt(kind, x) ==
    /\ rv' = RangedValue_from_int(kind, x)
    /\ rvOp' = [op |-> "from_int", kind |-> kind, x |-> x]
    /\ UNCHANGED <<pc, call, ret, xml>>

NewMin(kind) ==
    /\ rv' = RangedValue_new_min(kind)
    /\ rvOp' = [op |-> "new_min", kind |-> kind, x |-> 0]
    /\ UNCHANGED <<pc, call, ret, xml>>

NewMax(kind) ==
    /\ rv' = RangedValue_new_max(kind)
    /\ rvOp' = [op |-> "new_max", kind |-> kind, x |-> 0]
    /\ UNCHANGED <<pc, call, ret, xml>>

Set(x) ==
    /\ rv' = RangedValue_set(rv, x)
    /\ rvOp' = [op |-> "set", kind |-> rv.kind, x |-> x]
    /\ UNCHANGED <<pc, call, ret, xml>>

NextRanged ==
    \/ \E kind \in RangeKind, b \in ByteInputs : FromByte(kind, b)
    \/ \E kind \in RangeKind, x \in IntInputs : FromInt(kind, x)
    \/ \E kind \in RangeKind : NewMin(kind)
    \/ \E kind \in RangeKind : NewMax(kind)
    \/ \E x \in IntInputs : Set(x)

SpecRanged == Init /\ [][NextRanged]_vars

(***************************************************************************)
(* Inputs of the codec functions                                           *)
(***************************************************************************)
\* i32 arguments: around the bounds of every subrange type and of Transpose,
\* and the extremes of i32
I32Inputs ==
    UNION {(MINIMUM_VALUE(t) - MaxDelta)..(MINIMUM_VALUE(t) + MaxDelta)
              \cup (MAXIMUM_VALUE(t) - MaxDelta)..(MAXIMUM_VALUE(t) + MaxDelta)
           : t \in SubrangeType}
        \cup (-2 - MaxDelta)..(2 + MaxDelta)
        \cup {-2147483647 - 1, 2147483647}

\* wire bytes of a detune field: the 4-bit field and some larger bytes
DetuneWireInputs == 0..(14 + MaxDelta) \cup {128, 255}

KlsInputs ==
    {[breakpoint |-> b, left_depth |-> l, right_depth |-> r,
      left_curve |-> lc, right_curve |-> rc] :
        b \in {0, 39, 99}, l \in {0, 54, 99}, r \in {0, 50, 99},
        lc \in ScalingCurves, rc \in ScalingCurves}

\* in-range operators: the operators of the source's voices, varied in the
\* fields that share a byte
BaseOperators ==
    {Operator_new} \cup {make_brass1.operators[i] : i \in 1..OPERATOR_COUNT}

OperatorInputs ==
    BaseOperators
    \cup {[Operator_new EXCEPT !.kbd_rate_scaling = krs, !.detune = d,
                               !.mode = m, !.coarse = c] :
            krs \in get_range("Depth"), d \in get_range("Detune"),
            m \in {"Ratio", "Fixed"}, c \in {0, 1, 31}}
    \cup {[make_brass1.operators[6] EXCEPT !.amp_mod_sens = ams,
                                           !.key_vel_sens = kvs,
                                           !.output_level = ol, !.fine = f] :
            ams \in 0..3, kvs \in get_range("Depth"),
            ol \in {0, 82, 99}, f \in {0, 1, 99}}
    \cup {[Operator_new EXCEPT !.kbd_level_scaling = k] : k \in KlsInputs}

\* in-range voices: the source's voices, varied in every operator's detune and
\* curves, and in the global parameters
VoiceInputs ==
    {make_brass1, make_init_voice}
    \cup {[make_init_voice EXCEPT !.operators =
              [i \in 1..OPERATOR_COUNT |->
                  [@[i] EXCEPT !.detune = d,
                               !.kbd_level_scaling.left_curve = lc,
                               !.kbd_level_scaling.right_curve = rc]],
                                 !.osc_sync = s] :
            d \in get_range("Detune"),
            lc \in ScalingCurves, rc \in ScalingCurves, s \in BOOLEAN}
    \cup {[make_brass1 EXCEPT !.feedback = f, !.osc_sync = s, !.alg = a,
                              !.transpose = t, !.lfo.pitch_mod_sens = p] :
            f \in get_range("Depth"), s \in BOOLEAN, a \in {1, 22, 32},
            t \in -2..2, p \in {0, 7}}
    \cup {[make_init_voice EXCEPT !.feedback = f, !.osc_sync = s] :
            f \in get_range("Depth"), s \in BOOLEAN}
    \cup {[make_brass1 EXCEPT !.operators =
              [i \in 1..OPERATOR_COUNT |-> [@[i] EXCEPT !.detune = d - i]],
                              !.osc_sync = s] :
            d \in 0..1, s \in BOOLEAN}

\* names of every length up to MaxNameLen: "BCDE..."
NameOfLen(n) == [i \in 1..n |-> 65 + (i % 26)]
NameInputs == {NameOfLen(n) : n \in 0..MaxNameLen}

\* voices with a name of any length
NamedVoiceInputs ==
    {[v EXCEPT !.name = n] : v \in {make_brass1, make_init_voice}, n \in NameInputs}

LibOperatorInputs ==
    {[Lib_Operator_new EXCEPT !.kbd_rate_scaling = krs, !.detune = d,
                                !.mode = m,
                                !.coarse = RangedValue_from_int("Coarse", c)] :
        krs \in 0..7, d \in -7..7, m \in {"Ratio", "Fixed"}, c \in {0, 1, 31}}
    \cup {[Lib_Operator_new EXCEPT
              !.eg = Lib_EnvelopeOf(<<49, 99, 28, 68>>, <<98, 98, 91, 0>>),
              !.kbd_level_scaling = k,
              !.kbd_rate_scaling = 4,
              !.amp_mod_sens = ams,
              !.key_vel_sens = kvs,
              !.output_level = RangedValue_from_int("OutputLevel", ol),
              !.fine = RangedValue_from_int("Fine", f)] :
            k \in {[breakpoint |-> 39, left_depth |-> 54, right_depth |-> 50,
                    left_curve |-> lc, right_curve |-> rc] :
                        lc \in ScalingCurves, rc \in ScalingCurves},
            ams \in 0..3, kvs \in {0, 2, 7}, ol \in {0, 82, 99}, f \in {0, 99}}

LibVoiceInputs ==
    {[Lib_make_init_voice EXCEPT !.name = n] : n \in NameInputs}
    \cup {[Lib_make_init_voice EXCEPT
              !.op1.kbd_rate_scaling = k, !.op2.kbd_rate_scaling = k + 1,
              !.op3.kbd_rate_scaling = k + 2, !.op4.kbd_rate_scaling = k + 3,
              !.op5.kbd_rate_scaling = k + 4, !.op6.kbd_rate_scaling = k + 5] :
            k \in 0..2}

\* checksum inputs: every sequence of at most MaxDataLen of these bytes
ChecksumBytes == {0, 1, 127, 128, 255}
ChecksumInputs ==
    UNION {[1..n -> ChecksumBytes] : n \in 0..MaxDataLen}

\* the seeds of the random runs
Seeds == 0..MaxSeed

\* voices whose packed bytes Voice::from_packed_bytes decodes to the end
DecodableVoices ==
    {[make_init_voice EXCEPT !.osc_sync = FALSE],
     [make_brass1 EXCEPT !.operators =
         [i \in 1..OPERATOR_COUNT |-> [@[i] EXCEPT !.detune = -i]],
                         !.osc_sync = FALSE]}

\* the lengths of the data given to Cartridge::from_packed_bytes: 4098 is
\* the length of data[6..] of a cartridge file, which dump() hands over
CartridgeLengths == {0, 127, 128, 4095, 4096, 4097, 4098, 4224}

\* d cut or extended (with the terminator byte) to n bytes
Resized(d, n) ==
    IF n <= Len(d) THEN SubSeq(d, 1, n)
    ELSE d \o [i \in 1..(n - Len(d)) |-> 247]

\* cartridge data: 32 times the same voice, and the default cartridge
CartridgeDataInputs ==
    {Resized(VoicesPacked([i \in 1..VOICE_COUNT |-> v], VOICE_COUNT), n) :
        v \in DecodableVoices \cup {Voice_new}, n \in CartridgeLengths}

\* the 155 bytes of tests::test_voice_from_bytes, "GET FUNKY "
TestVoiceBytes ==
    <<99, 99, 99, 99,
      99, 99, 99, 0, 0, 0, 0, 0, 0, 0,
      0, 0, 87, 0, 11, 0, 7, 99, 39, 99,
      99, 99, 0, 0, 0, 0, 0, 0, 0, 0,
      0, 0, 7, 65, 0, 0, 0, 7, 99, 39,
      99, 99, 99, 0, 0, 0, 0, 0, 10, 0,
      0, 0, 0, 5, 88, 0, 8, 0, 7, 99,
      32, 99, 87, 99, 0, 0, 0, 0, 0, 17,
      0, 0, 0, 0, 3, 71, 0, 3, 0, 7,
      99, 35, 99, 87, 99, 99, 99, 0, 0, 0,
      17, 0, 0, 0, 0, 0, 92, 0, 0, 0,
      7, 99, 67, 30, 87, 99, 95, 0, 0, 0,
      0, 0, 0, 0, 0, 0, 4, 99, 0, 0,
      0, 7, 99, 99, 99, 99, 50, 50, 50, 50,
      15, 5, 1, 35, 0, 0, 0, 1, 0, 0,
      24, 71, 69, 84, 32, 70, 85, 78, 75, 89,
      32>>

\* d with byte i (from 0) replaced by b
Patched(d, i, b) == [d EXCEPT ![i + 1] = b]

\* unpacked voice data: the test's bytes, cut or extended, and with a name
\* byte that is not ASCII
UnpackedVoiceInputs ==
    {Resized(TestVoiceBytes, n) : n \in {0, 21, 154, 155, 156}}
    \cup {Patched(TestVoiceBytes, i, b) : i \in {145, 154}, b \in {128, 255}}

\* packed bytes that decode to the end
DecodablePacked == {Voice_to_packed_bytes(v).val : v \in DecodableVoices}

\* wire values outside their field's range: rate, level, output level and
\* fine above 99, a detune field of 15, an algorithm byte above 31
OutOfRangePatches ==
    {<<0, 100>>, <<0, 255>>, <<4, 100>>, <<14, 100>>, <<14, 255>>, <<16, 100>>,
     <<12, 120>>, <<110, 32>>, <<110, 255>>, <<102, 100>>, <<112, 100>>}

\* packed voice data: decodable bytes, cut or extended, with a value out of
\* range, and with a name byte that is not ASCII
PackedVoiceInputs ==
    {Resized(d, n) : d \in DecodablePacked, n \in {0, 17, 127, 128, 129}}
    \cup {Patched(d, p[1], p[2]) : d \in DecodablePacked, p \in OutOfRangePatches}
    \cup {Patched(d, i, b) : d \in DecodablePacked, i \in {118, 127}, b \in {128, 255}}

\* packed operator data: the operators of the decodable voices, cut or extended
PackedOperatorInputs ==
    {Resized(Slice(d, 0, 17), n) : d \in DecodablePacked, n \in {0, 12, 16, 17, 18}}

\* in-range LFOs: the LFO of tests::test_lfo_to_packed_bytes among them
LfoInputs ==
    {[speed |-> sp, delay |-> d, pmd |-> 5, amd |-> a, sync |-> s, wave |-> w,
      pitch_mod_sens |-> p] :
        sp \in {0, 37, 99}, d \in {0, 99}, a \in {0, 99}, s \in BOOLEAN,
        w \in {LfoWaveform[i] : i \in DOMAIN LfoWaveform},
        p \in get_range("Depth")}

\* voices of lib.rs with every sync, waveform and pitch_mod_sens
LibLfoVoiceInputs ==
    {[Lib_make_init_voice EXCEPT !.lfo.sync = s, !.lfo.wave = w,
                                 !.pitch_mod_sens = p] :
        s \in BOOLEAN, w \in {LfoWaveform[i] : i \in DOMAIN LfoWaveform},
        p \in 0..7}

\* packed LFO data with every value 0..7 of the waveform field
PackedLfoInputs ==
    {<<37, 0, 5, 0, B116of>> :
        B116of \in {s + 2 * w + 16 * p : s \in 0..1, w \in 0..7, p \in {0, 3, 7}}}

\* unpacked LFO data with waveform bytes in and out of 0..5
UnpackedLfoInputs ==
    {<<37, 0, 5, 0, s, w, p>> :
        s \in 0..1, w \in 0..(5 + MaxDelta) \cup {128, 255}, p \in {0, 3, 7}}

\* in-range envelopes: the default one, those of BRASS 1 and of the test
\* test_eg_to_bytes, and eight different values
EnvelopeInputs ==
    {<<<<99, 99, 99, 99>>, <<99, 99, 99, 0>>>>,
     <<<<49, 99, 28, 68>>, <<98, 98, 91, 0>>>>,
     <<<<64, 64, 64, 64>>, <<32, 32, 32, 32>>>>,
     <<<<0, 1, 2, 3>>, <<4, 5, 6, 99>>>>}

\* 21 bytes of an operator followed by one byte of the next field of a voice
LibOperatorDataInputs ==
    {Lib_Operator_to_bytes(op).val \o <<b>> :
        op \in {Lib_Operator_new, Lib_make_init_voice.op1}, b \in {0, 7, 99}}

\* voice numbers: around the first and the last voice of a cartridge, and
\* the largest u8
VoiceNumbers ==
    (0..(1 + MaxDelta))
        \cup ((VOICE_COUNT - MaxDelta)..(VOICE_COUNT + MaxDelta)) \cup {255}

\* a cartridge of 32 decodable voices that differ in their algorithm
NumberedVoices ==
    [i \in 1..VOICE_COUNT |->
        [make_init_voice EXCEPT !.osc_sync = FALSE, !.alg = i]]

\* the bytes of a cartridge file and of a single-voice file: header, data,
\* checksum, terminator
DumpFiles ==
    {<<240, 67, 0, 9, 32, 0>>
        \o Resized(VoicesPacked(NumberedVoices, VOICE_COUNT), 4098),
     <<240, 67, 0, 0, 1, 27>> \o Resized(TestVoiceBytes, 157)}

\* the cartridge parsed from the cartridge file
ParsedCartridges ==
    {Cartridge_from_packed_bytes(VoicesPacked(NumberedVoices, VOICE_COUNT)).val}

(***************************************************************************)
(* Spec: the codec functions of src/dx7.rs applied to these inputs         *)
(***************************************************************************)
\* the call returns r
Returns(c, r) ==
    /\ pc = "idle"
    /\ pc' = "done"
    /\ call' = c
    /\ ret' = r
    /\ UNCHANGED <<rv, rvOp, xml>>

\* the bytes returned by the call `fn` are given to the next call
Encoded(fn) == pc = "done" /\ call.fn = fn /\ ret.ok

Decodes(c, r) ==
    /\ pc' = "done"
    /\ call' = c
    /\ ret' = r
    /\ UNCHANGED <<rv, rvOp, xml>>

DoSubrangeNew(type, x) ==
    Returns(Call("Subrange::new", [type |-> type, value |-> x]),
            Subrange_new(type, x))

DoTransposeNew(x) ==
    Returns(Call("Transpose::new", x), Transpose_new(x))

DoDetuneFrom(b) ==
    Returns(Call("Detune::from", b), Detune_from(b))

\* Detune::from(Detune::new(d).as_byte())
DoDetuneFromAsByte ==
    /\ Encoded("Subrange::new")
    /\ call.arg.type = "Detune"
    /\ Decodes(CallOn("Detune::from", Detune_as_byte(ret.val), ret.val),
               Detune_from(Detune_as_byte(ret.val)))

DoKlsToPackedBytes(k) ==
    Returns(Call("KeyboardLevelScaling::to_packed_bytes", k),
            Ok(KeyboardLevelScaling_to_packed_bytes(k)))

DoKlsFromPackedBytes ==
    /\ Encoded("KeyboardLevelScaling::to_packed_bytes")
    /\ Decodes(CallOn("KeyboardLevelScaling::from_packed_bytes", ret.val, call.arg),
               KeyboardLevelScaling_from_packed_bytes(ret.val))

DoOperatorToPackedBytes(op) ==
    Returns(Call("Operator::to_packed_bytes", op), Operator_to_packed_bytes(op))

DoVoiceToPackedBytes(v) ==
    Returns(Call("Voice::to_packed_bytes", v), Voice_to_packed_bytes(v))

DoVoiceFromPackedBytes ==
    /\ Encoded("Voice::to_packed_bytes")
    /\ Decodes(CallOn("Voice::from_packed_bytes", ret.val, call.arg),
               Voice_from_packed_bytes(ret.val))

DoVoiceChecksum(d) ==
    Returns(Call("voice_checksum", d), Ok(voice_checksum(d)))

DoLibVoiceChecksum(d) ==
    Returns(Call("lib::voice_checksum", d), Ok(Lib_voice_checksum(d)))

DoLibOperatorToPackedBytes(op) ==
    Returns(Call("lib::Operator::to_packed_bytes", op),
            Lib_Operator_to_packed_bytes(op))

DoLibVoiceToPackedBytes(v) ==
    Returns(Call("lib::Voice::to_packed_bytes", v), Lib_Voice_to_packed_bytes(v))

DoCartridgeDefault ==
    Returns(Call("Cartridge::default", 0), Ok(Cartridge_default))

DoMakeRandomCartridge(seed) ==
    Returns(Call("make_random_cartridge", seed), Ok(make_random_cartridge(seed)))

DoCartridgeFromPackedBytes(data) ==
    Returns(Call("Cartridge::from_packed_bytes", data),
            Cartridge_from_packed_bytes(data))

\* to_packed_bytes of the cartridge that the last call has made
DoCartridgeToPackedBytes ==
    /\ pc = "done"
    /\ call.fn \in {"Cartridge::default", "make_random_cartridge",
                    "Cartridge::from_packed_bytes"}
    /\ ret.ok
    /\ Decodes(CallOn("Cartridge::to_packed_bytes", ret.val, call.fn),
               Cartridge_to_packed_bytes(ret.val))

DoGenerateCartridge(seed) ==
    Returns(Call("generate_cartridge", seed), generate_cartridge(seed))

DoLibRun(seed) ==
    Returns(Call("lib::run", seed), Lib_run(seed))

DoVoiceFromPackedBytesOf(data) ==
    Returns(Call("Voice::from_packed_bytes", data), Voice_from_packed_bytes(data))

DoVoiceFromBytes(data) ==
    Returns(Call("Voice::from_bytes", data), Voice_from_bytes(data))

DoOperatorFromPackedBytes(data) ==
    Returns(Call("Operator::from_packed_bytes", data),
            Operator_from_packed_bytes(data))

\* as_byte of the Transpose that Transpose::new has made
DoTransposeAsByte ==
    /\ Encoded("Transpose::new")
    /\ Decodes(CallOn("Transpose::as_byte", ret.val, call.arg),
               Ok(Transpose_as_byte(ret.val)))

DoTransposeFromByte(b) ==
    Returns(Call("Transpose::from_byte", b), Transpose_from_byte(b))

\* Transpose::from_byte(t.as_byte())
DoTransposeFromAsByte ==
    /\ Encoded("Transpose::as_byte")
    /\ Decodes(CallOn("Transpose::from_byte", ret.val, call.arg),
               Transpose_from_byte(ret.val))

DoLfoToPackedBytes(l) ==
    Returns(Call("Lfo::to_packed_bytes", l), Ok(Lfo_to_packed_bytes(l)))

DoLfoFromPackedBytes ==
    /\ Encoded("Lfo::to_packed_bytes")
    /\ Decodes(CallOn("Lfo::from_packed_bytes", ret.val, call.arg),
               Lfo_from_packed_bytes(ret.val))

DoLfoFromPackedBytesOf(data) ==
    Returns(Call("Lfo::from_packed_bytes", data), Lfo_from_packed_bytes(data))

DoLfoFromBytes(data) ==
    Returns(Call("Lfo::from_bytes", data), Lfo_from_bytes(data))

DoOperatorToBytes(op) ==
    Returns(Call("Operator::to_bytes", op), Operator_to_bytes(op))

DoOperatorFromBytes ==
    /\ Encoded("Operator::to_bytes")
    /\ Decodes(CallOn("Operator::from_bytes", ret.val, call.arg),
               Operator_from_bytes(ret.val))

DoLibOperatorToBytes(op) ==
    Returns(Call("lib::Operator::to_bytes", op), Lib_Operator_to_bytes(op))

DoLibOperatorFromBytes ==
    /\ Encoded("lib::Operator::to_bytes")
    /\ Decodes(CallOn("lib::Operator::from_bytes", ret.val, call.arg),
               Lib_Operator_from_bytes(ret.val))

DoLibOperatorFromBytesOf(data) ==
    Returns(Call("lib::Operator::from_bytes", data), Lib_Operator_from_bytes(data))

DoKlsToBytes(k) ==
    Returns(Call("KeyboardLevelScaling::to_bytes", k),
            Ok(KeyboardLevelScaling_to_bytes(k)))

DoKlsFromBytes ==
    /\ Encoded("KeyboardLevelScaling::to_bytes")
    /\ Decodes(CallOn("KeyboardLevelScaling::from_bytes", ret.val, call.arg),
               KeyboardLevelScaling_from_bytes(ret.val))

DoLibKlsToBytes(k) ==
    Returns(Call("lib::KeyboardLevelScaling::to_bytes", k),
            Ok(Lib_KeyboardLevelScaling_to_bytes(k)))

DoLibKlsFromBytes ==
    /\ Encoded("lib::KeyboardLevelScaling::to_bytes")
    /\ Decodes(CallOn("lib::KeyboardLevelScaling::from_bytes", ret.val, call.arg),
               Lib_KeyboardLevelScaling_from_bytes(ret.val))

DoEnvelopeToBytes(e, packed) ==
    Returns(Call("Envelope::to_bytes", [eg |-> EnvelopeOf(e[1], e[2]), packed |-> packed]),
            Ok(IF packed THEN Envelope_to_packed_bytes(EnvelopeOf(e[1], e[2]))
               ELSE Envelope_to_bytes(EnvelopeOf(e[1], e[2]))))

DoEnvelopeFromBytes ==
    /\ Encoded("Envelope::to_bytes")
    /\ Decodes(CallOn("Envelope::from_bytes", ret.val, call.arg),
               IF call.arg.packed THEN Envelope_from_packed_bytes(ret.val)
               ELSE Envelope_from_bytes(ret.val))

DoLibEnvelopeToBytes(e) ==
    Returns(Call("lib::EnvelopeGenerator::to_bytes", Lib_EnvelopeOf(e[1], e[2])),
            Ok(Lib_EnvelopeGenerator_to_bytes(Lib_EnvelopeOf(e[1], e[2]))))

DoLibEnvelopeFromBytes ==
    /\ Encoded("lib::EnvelopeGenerator::to_bytes")
    /\ Decodes(CallOn("lib::EnvelopeGenerator::from_bytes", ret.val, call.arg),
               Lib_EnvelopeGenerator_from_bytes(ret.val))

DoDetuneGetValue ==
    /\ Encoded("Subrange::new")
    /\ call.arg.type = "Detune"
    /\ Decodes(CallOn("Detune::get_value", ret.val, call.arg.value),
               Detune_get_value(ret.val))

DoOperatorFmt(op) ==
    Returns(Call("Operator::fmt", op), Operator_fmt(op))

DoDump(data, voice_number) ==
    Returns(Call("dump", [data |-> data, voice_number |-> voice_number]),
            dump(data, voice_number))

DoRunDump(cartridge, number) ==
    Returns(Call("run_dump", [cartridge |-> cartridge, number |-> number]),
            run_dump(cartridge, number))

DoLibMakeRandomCartridge(seed) ==
    Returns(Call("lib::make_random_cartridge", seed),
            Ok(Lib_make_random_cartridge(seed)))

Return ==
    /\ pc = "done"
    /\ pc' = "idle"
    /\ call' = NoCall
    /\ ret' = NoRet
    /\ UNCHANGED <<rv, rvOp, xml>>

Next ==
    \/ \E type \in SubrangeType, x \in I32Inputs : DoSubrangeNew(type, x)
    \/ \E x \in I32Inputs : DoTransposeNew(x)
    \/ \E b \in DetuneWireInputs : DoDetuneFrom(b)
    \/ DoDetuneFromAsByte
    \/ \E k \in KlsInputs : DoKlsToPackedBytes(k)
    \/ DoKlsFromPackedBytes
    \/ \E op \in OperatorInputs : DoOperatorToPackedBytes(op)
    \/ \E v \in VoiceInputs \cup NamedVoiceInputs : DoVoiceToPackedBytes(v)
    \/ DoVoiceFromPackedBytes
    \/ \E d \in ChecksumInputs : DoVoiceChecksum(d)
    \/ \E d \in ChecksumInputs : DoLibVoiceChecksum(d)
    \/ \E op \in LibOperatorInputs : DoLibOperatorToPackedBytes(op)
    \/ \E v \in LibVoiceInputs \cup LibLfoVoiceInputs : DoLibVoiceToPackedBytes(v)
    \/ DoTransposeAsByte
    \/ \E b \in Byte : DoTransposeFromByte(b)
    \/ DoTransposeFromAsByte
    \/ \E l \in LfoInputs : DoLfoToPackedBytes(l)
    \/ DoLfoFromPackedBytes
    \/ \E data \in PackedLfoInputs : DoLfoFromPackedBytesOf(data)
    \/ \E data \in UnpackedLfoInputs : DoLfoFromBytes(data)
    \/ \E data \in PackedVoiceInputs : DoVoiceFromPackedBytesOf(data)
    \/ \E data \in UnpackedVoiceInputs : DoVoiceFromBytes(data)
    \/ \E data \in PackedOperatorInputs : DoOperatorFromPackedBytes(data)
    \/ \E op \in OperatorInputs : DoOperatorToBytes(op)
    \/ DoOperatorFromBytes
    \/ \E op \in LibOperatorInputs : DoLibOperatorToBytes(op)
    \/ DoLibOperatorFromBytes
    \/ \E data \in LibOperatorDataInputs : DoLibOperatorFromBytesOf(data)
    \/ \E k \in KlsInputs : DoKlsToBytes(k)
    \/ DoKlsFromBytes
    \/ \E k \in KlsInputs : DoLibKlsToBytes(k)
    \/ DoLibKlsFromBytes
    \/ \E e \in EnvelopeInputs, packed \in BOOLEAN : DoEnvelopeToBytes(e, packed)
    \/ DoEnvelopeFromBytes
    \/ \E e \in EnvelopeInputs : DoLibEnvelopeToBytes(e)
    \/ DoLibEnvelopeFromBytes
    \/ DoDetuneGetValue
    \/ \E op \in OperatorInputs : DoOperatorFmt(op)
    \/ \E data \in DumpFiles, n \in VoiceNumbers : DoDump(data, n)
    \/ \E cartridge \in ParsedCartridges,
          number \in {None} \cup {Some(n) : n \in VoiceNumbers} :
          DoRunDump(cartridge, number)
    \/ \E seed \in Seeds : DoLibMakeRandomCartridge(seed)
    \/ DoCartridgeDefault
    \/ \E seed \in Seeds : DoMakeRandomCartridge(seed)
    \/ \E data \in CartridgeDataInputs : DoCartridgeFromPackedBytes(data)
    \/ DoCartridgeToPackedBytes
    \/ \E seed \in Seeds : DoGenerateCartridge(seed)
    \/ \E seed \in Seeds : DoLibRun(seed)
    \/ Return

Spec == Init /\ [][Next]_vars

(***************************************************************************)
(* SpecXml: run_make_syx reading the events of a well-formed document.     *)
(* The documents are those run_make_xml writes (cartridge, voices, voice   *)
(* with peg, lfo and operators, operator with eg and keyboardLevelScaling),*)
(* with up to MaxOperators operators in a voice, an <eg> envelope allowed   *)
(* in the place of <peg> and an <operator> allowed outside a voice.        *)
(***************************************************************************)
ChildrenOf(parent) ==
    CASE parent = "#document" -> {"cartridge"}
      [] parent = "cartridge" -> {"voices"}
      [] parent = "voices" -> {"voice", "operator"}
      [] parent = "voice" -> {"peg", "eg", "lfo", "operators"}
      [] parent = "operators" -> {"operator"}
      [] parent = "operator" -> {"eg", "keyboardLevelScaling"}
      [] parent \in {"peg", "eg"} -> {"rates", "levels"}
      [] parent = "keyboardLevelScaling" -> {"depth", "curve"}
      [] OTHER -> {}

\* the place of an element among the children of its parent
Rank(name) ==
    CASE name \in {"lfo", "levels", "curve", "keyboardLevelScaling"} -> 2
      [] name = "operators" -> 3
      [] OTHER -> 1

Repeatable(name) == name \in {"voice", "operator"}

MaxChildren(parent) ==
    CASE parent = "voices" -> MaxVoices
      [] parent = "operators" -> MaxOperators
      [] OTHER -> 3

\* the children (or the text) an element has when it is closed
MinChildren(parent) ==
    CASE parent = "voice" -> 3
      [] parent \in {"operator", "peg", "eg", "keyboardLevelScaling"} -> 2
      [] parent \in {"rates", "levels"} -> 1
      [] OTHER -> 0

VoiceAttributes ==
    {[name |-> "A", algorithm |-> 1, transpose |-> 0, feedback |-> 0,
      oscillatorSync |-> TRUE, pitchModulationSensitivity |-> 0],
     [name |-> "B", algorithm |-> 32, transpose |-> -2, feedback |-> 7,
      oscillatorSync |-> FALSE, pitchModulationSensitivity |-> 7]}

OperatorAttributes ==
    {[level |-> 99, mode |-> "ratio", coarse |-> 1, fine |-> 0, detune |-> 0,
      amplitudeModulationSensitivity |-> 0, keyVelocitySensitivity |-> 0,
      keyboardRateScaling |-> 0],
     [level |-> 50, mode |-> "fixed", coarse |-> 31, fine |-> 99, detune |-> -7,
      amplitudeModulationSensitivity |-> 3, keyVelocitySensitivity |-> 7,
      keyboardRateScaling |-> 7]}

NoAttributes == [none |-> 0]

AttributesOf(name) ==
    CASE name = "voice" -> VoiceAttributes
      [] name = "operator" -> OperatorAttributes
      [] name = "keyboardLevelScaling" -> {[breakpoint |-> 60]}
      [] name = "depth" -> {[left |-> 10, right |-> 20]}
      [] name = "curve" -> {[left |-> "+EXP", right |-> "-EXP"]}
      [] name = "lfo" -> {[speed |-> 50, delay |-> 10, pmd |-> 20, amd |-> 30,
                           sync |-> FALSE, wave |-> "square"]}
      [] OTHER -> {NoAttributes}

\* the texts of <rates> and of <levels>
TextsOf(name) ==
    IF name = "rates" THEN {<<10, 20, 30, 40>>, <<50, 60, 70, 80>>}
    ELSE {<<90, 80, 70, 0>>}

ElementNames ==
    {"cartridge", "voices", "voice", "peg", "eg", "rates", "levels", "lfo",
     "operators", "operator", "keyboardLevelScaling", "depth", "curve"}

Top == xml.stack[Len(xml.stack)]

Running == xml.status = "running"

\* the open elements with one more child of the innermost one
Pushed(name) ==
    [xml.stack EXCEPT ![Len(xml.stack)] =
        [@ EXCEPT !.n = @ + 1, !.last = Rank(name)]] \o <<Frame(name)>>

XmlStartElement(name, attributes) ==
    /\ Running
    /\ name \in ChildrenOf(Top.name)
    /\ Top.n < MaxChildren(Top.name)
    /\ IF Repeatable(name) THEN Rank(name) >= Top.last ELSE Rank(name) > Top.last
    /\ xml' = [StartElement(xml, name, attributes) EXCEPT !.stack = Pushed(name)]
    /\ UNCHANGED <<rv, rvOp, pc, call, ret>>

XmlCharacters ==
    /\ Running
    /\ Top.name \in {"rates", "levels"}
    /\ Top.n = 0
    /\ \E text \in TextsOf(Top.name) :
          xml' = [Characters(xml, text) EXCEPT !.stack[Len(xml.stack)].n = 1]
    /\ UNCHANGED <<rv, rvOp, pc, call, ret>>

XmlEndElement ==
    /\ Running
    /\ Len(xml.stack) > 1
    /\ Top.n >= MinChildren(Top.name)
    /\ xml' = [EndElement(xml, Top.name) EXCEPT
                  !.stack = SubSeq(xml.stack, 1, Len(xml.stack) - 1)]
    /\ UNCHANGED <<rv, rvOp, pc, call, ret>>

\* the end of the document: the loop ends and the voices are printed
XmlEndDocument ==
    /\ Running
    /\ Len(xml.stack) = 1
    /\ Top.n = 1
    /\ xml' = [xml EXCEPT !.status = "finished"]
    /\ UNCHANGED <<rv, rvOp, pc, call, ret>>

\* the arm of Err: the parser reports an error and the loop ends
XmlError ==
    /\ Running
    /\ xml' = [xml EXCEPT !.status = "finished"]
    /\ UNCHANGED <<rv, rvOp, pc, call, ret>>

NextXml ==
    \/ \E name \in ElementNames : \E attributes \in AttributesOf(name) :
          XmlStartElement(name, attributes)
    \/ XmlCharacters
    \/ XmlEndElement
    \/ XmlEndDocument
    \/ XmlError

SpecXml == Init /\ [][NextXml]_vars

(***************************************************************************)
(* C1 - C4 and C7 - C10: the codec                                         *)
(***************************************************************************)
\* C1: for every in-range Voice v, Voice::from_packed_bytes(v.to_packed_bytes())
\* completes and yields a voice equal to v field by field.
C1_PackedVoiceRoundTrip ==
    (pc = "done" /\ call.fn = "Voice::from_packed_bytes" /\ call.hasSrc
        /\ Len(call.src.name) = 10)
    => (ret.ok /\ ret.val = call.src)

\* "BRASS   1 "
Brass1Name == <<66, 82, 65, 83, 83, 32, 32, 32, 49, 32>>

\* C2: decoding the 128 packed bytes of BRASS 1 completes, the decoded name is
\* "BRASS   1 ", and encoding the decoded voice gives the input bytes again.
C2_Brass1Fidelity ==
    (pc = "done" /\ call.fn = "Voice::from_packed_bytes" /\ call.hasSrc
        /\ call.src = make_brass1)
    => /\ Len(call.arg) = 128
       /\ ret.ok
       /\ ret.val.name = Brass1Name
       /\ Voice_to_packed_bytes(ret.val) = Ok(call.arg)

\* C3: Voice::to_packed_bytes returns exactly 128 bytes whatever the length of
\* the name: a short name is padded with spaces to 10 bytes, a long name is cut
\* to 10 bytes (lib.rs and dx7.rs).
C3_PackedLength ==
    (pc = "done"
        /\ call.fn \in {"Voice::to_packed_bytes", "lib::Voice::to_packed_bytes"})
    => /\ ret.ok
       /\ Len(ret.val) = 128
       /\ \A i \in 1..10 :
            ret.val[118 + i] = IF i <= Len(call.arg.name)
                               THEN call.arg.name[i] ELSE SPACE

\* the sum of the bytes of d, from the last byte to the first
RECURSIVE SumUpTo(_, _)
SumUpTo(d, n) == IF n = 0 THEN 0 ELSE d[n] + SumUpTo(d, n - 1)

\* C4: voice_checksum(d) = ((NOT s) AND 0x7F) + 1 where s is the sum of the
\* bytes of d modulo 256 (NOT s = 255 - s, AND 0x7F = modulo 128).
C4_Checksum ==
    (pc = "done" /\ call.fn \in {"voice_checksum", "lib::voice_checksum"})
    => LET s == SumUpTo(call.arg, Len(call.arg)) % 256
       IN ret.ok /\ ret.val = ((255 - s) % 128) + 1

\* the checksum of 255, 128, 1 (sum 384, s = 128) is 128
C4_Witness ==
    /\ pc = "done"
    /\ call.fn = "voice_checksum"
    /\ call.arg = <<255, 128, 1>>
    /\ ret.val = 128

\* C7: Subrange::new(x) of UnsignedLevel, Algorithm, Detune, Coarse and Depth,
\* and Transpose::new(x), return x clamped into the type's range for every
\* i32 x, and do not panic.
C7_ConstructionNeverFails ==
    /\ (pc = "done" /\ call.fn = "Subrange::new")
        => /\ ret.ok
           /\ ret.val = Clamp(call.arg.value, MINIMUM_VALUE(call.arg.type),
                              MAXIMUM_VALUE(call.arg.type))
    /\ (pc = "done" /\ call.fn = "Transpose::new")
        => (ret.ok /\ ret.val = Clamp(call.arg, -2, 2))

\* C8: Detune::from(b) of a wire byte b in 0..14 is the detune b - 7, and
\* Detune::from(Detune::new(d).as_byte()) is d for every d in -7..7.
C8_DetuneWireMapping ==
    (pc = "done" /\ call.fn = "Detune::from" /\ call.arg \in 0..14)
    => /\ ret.ok
       /\ ret.val = call.arg - 7
       /\ call.hasSrc => ret.val = call.src

\* C9: KeyboardLevelScaling::from_packed_bytes(k.to_packed_bytes()) has the
\* left curve and the right curve of k, for all 16 pairs of curves.
C9_CurvePacking ==
    (pc = "done" /\ call.fn = "KeyboardLevelScaling::from_packed_bytes"
        /\ call.hasSrc)
    => /\ ret.ok
       /\ ret.val.left_curve = call.src.left_curve
       /\ ret.val.right_curve = call.src.right_curve

\* the wire code of a curve: 0 = -LIN, 1 = -EXP, 2 = +EXP, 3 = +LIN
CurveCode(c) ==
    IF c.curve = "Linear" THEN (IF c.positive THEN 3 ELSE 0)
    ELSE (IF c.positive THEN 2 ELSE 1)

\* the value of a field that is a RangedValue (lib.rs) or an integer (dx7.rs)
FieldValue(fn, f) == IF fn = "lib::Operator::to_packed_bytes" THEN f.value ELSE f

\* the eight envelope values rate1..4, level1..4 of an operator
EnvelopeValues(fn, eg) ==
    IF fn = "lib::Operator::to_packed_bytes"
    THEN <<eg.rate1.value, eg.rate2.value, eg.rate3.value, eg.rate4.value,
           eg.level1.value, eg.level2.value, eg.level3.value, eg.level4.value>>
    ELSE eg.rates \o eg.levels

\* C10: Operator::to_packed_bytes returns 17 bytes: rate1..4, level1..4,
\* breakpoint, left depth, right depth, left_curve | right_curve << 2,
\* kbd_rate_scaling | (detune + 7) << 3, amp_mod_sens | key_vel_sens << 2,
\* output_level, mode | coarse << 1 (Ratio = 0, Fixed = 1), fine.
C10_PackedOperatorLayout ==
    (pc = "done"
        /\ call.fn \in {"Operator::to_packed_bytes", "lib::Operator::to_packed_bytes"})
    => LET op == call.arg
           b == ret.val
           kls == op.kbd_level_scaling
       IN /\ ret.ok
          /\ Len(b) = 17
          /\ SubSeq(b, 1, 8) = EnvelopeValues(call.fn, op.eg)
          /\ b[9] = kls.breakpoint
          /\ b[10] = kls.left_depth
          /\ b[11] = kls.right_depth
          /\ b[12] = CurveCode(kls.left_curve) + 4 * CurveCode(kls.right_curve)
          /\ b[13] = op.kbd_rate_scaling + 8 * (op.detune + 7)
          /\ b[14] = op.amp_mod_sens + 4 * op.key_vel_sens
          /\ b[15] = FieldValue(call.fn, op.output_level)
          /\ b[16] = (IF op.mode = "Fixed" THEN 1 ELSE 0)
                        + 2 * FieldValue(call.fn, op.coarse)
          /\ b[17] = FieldValue(call.fn, op.fine)

\* operator 6 of BRASS 1 packs to the bytes of test_op_to_packed_bytes
C10_Witness ==
    /\ pc = "done"
    /\ call.fn = "Operator::to_packed_bytes"
    /\ call.arg = make_brass1.operators[6]
    /\ ret.val = <<49, 99, 28, 68, 98, 98, 91, 0, 39, 54, 50, 5, 60, 8, 82, 2, 0>>

\* C11: Voice::from_packed_bytes reads feedback from bits 0-2 and osc_sync
\* from bit 3 of byte 111: decoding the bytes of a voice with feedback f in
\* 0..7 and either osc_sync (every operator's detune at most 0, which the
\* decoder of the detune field accepts) completes with feedback f and the
\* same osc_sync.
C11_Byte111 ==
    (pc = "done" /\ call.fn = "Voice::from_packed_bytes" /\ call.hasSrc
        /\ Len(call.src.name) = 10
        /\ \A i \in 1..OPERATOR_COUNT : call.src.operators[i].detune <= 0)
    => /\ At(call.arg, 111) = call.src.feedback
                                + (IF call.src.osc_sync THEN 8 ELSE 0)
       /\ ret.ok
       /\ ret.val.feedback = call.src.feedback
       /\ ret.val.osc_sync = call.src.osc_sync

\* operator i of a voice of lib.rs
LibOperator(v, i) ==
    CASE i = 1 -> v.op1 [] i = 2 -> v.op2 [] i = 3 -> v.op3
      [] i = 4 -> v.op4 [] i = 5 -> v.op5 [] i = 6 -> v.op6

\* C12: Voice::to_packed_bytes (dx7.rs and lib.rs) writes operator i at bytes
\* [17 * (6 - i), 17 * (6 - i) + 17), operator 6 first, and the pitch
\* envelope at [102, 110); Voice::from_packed_bytes assigns the same byte
\* ranges back to operators 6 down to 1 and to the pitch envelope.
C12_ReverseOperatorOrder ==
    /\ (pc = "done" /\ call.fn = "Voice::to_packed_bytes"
            /\ Len(call.arg.name) <= 10)
        => /\ ret.ok
           /\ \A i \in 1..OPERATOR_COUNT :
                Slice(ret.val, 17 * (6 - i), 17 * (6 - i) + 17)
                    = Operator_to_packed_bytes(call.arg.operators[i]).val
           /\ Slice(ret.val, 102, 110) = Envelope_to_bytes(call.arg.peg)
    /\ (pc = "done" /\ call.fn = "lib::Voice::to_packed_bytes"
            /\ Len(call.arg.name) <= 10)
        => /\ ret.ok
           /\ \A i \in 1..OPERATOR_COUNT :
                Slice(ret.val, 17 * (6 - i), 17 * (6 - i) + 17)
                    = Lib_Operator_to_packed_bytes(LibOperator(call.arg, i)).val
           /\ Slice(ret.val, 102, 110)
                    = Lib_EnvelopeGenerator_to_bytes(call.arg.peg)
    /\ (pc = "done" /\ call.fn = "Voice::from_packed_bytes" /\ ret.ok)
        => /\ \A i \in 1..OPERATOR_COUNT :
                Ok(ret.val.operators[i])
                    = Operator_from_packed_bytes(
                          Slice(call.arg, 17 * (6 - i), 17 * (6 - i) + 17))
           /\ Ok(ret.val.peg)
                    = Envelope_from_packed_bytes(Slice(call.arg, 102, 110))

\* the bytes of a BRASS 1 with six different operators are decoded: byte 14,
\* in the first 17 bytes, is the output level of operator 6, and byte 99, in
\* the last 17 of the 102, is the output level of operator 1
C12_Witness ==
    /\ pc = "done"
    /\ call.fn = "Voice::from_packed_bytes"
    /\ call.hasSrc
    /\ ret.ok
    /\ At(call.arg, 14) = 82
    /\ ret.val.operators[6].output_level = 82
    /\ At(call.arg, 99) = call.src.operators[1].output_level
    /\ ret.val.operators[1].output_level = call.src.operators[1].output_level
    /\ call.src.operators[1].output_level # 82

\* a recoverable error returned to the caller
Err(e) == [ok |-> FALSE, val |-> e]

\* C13: Cartridge::from_packed_bytes returns a length error, and does not
\* panic or succeed, for every input whose length is not 4096.
C13_CartridgeLengthError ==
    (pc = "done" /\ call.fn = "Cartridge::from_packed_bytes"
        /\ Len(call.arg) # 4096)
    => ret = Err("length")

\* C14: Voice::from_packed_bytes of fewer than 128 bytes, Voice::from_bytes
\* of fewer than 155 bytes and Operator::from_packed_bytes of fewer than 17
\* bytes return a length error (one that names the expected and the actual
\* length), and do not panic.
C14_MalformedLength ==
    /\ (pc = "done" /\ call.fn = "Voice::from_packed_bytes" /\ Len(call.arg) < 128)
        => (~ret.ok /\ ret.val = "length")
    /\ (pc = "done" /\ call.fn = "Voice::from_bytes" /\ Len(call.arg) < 155)
        => (~ret.ok /\ ret.val = "length")
    /\ (pc = "done" /\ call.fn = "Operator::from_packed_bytes" /\ Len(call.arg) < 17)
        => (~ret.ok /\ ret.val = "length")

\* all bytes of a name are ASCII
IsAscii(bytes) == \A i \in DOMAIN bytes : bytes[i] < 128

\* C15: Voice::from_packed_bytes completes for every 128-byte input with an
\* ASCII name, whatever the values of its fields.
C15_LenientDecode ==
    (pc = "done" /\ call.fn = "Voice::from_packed_bytes" /\ ~call.hasSrc
        /\ Len(call.arg) = 128 /\ IsAscii(Slice(call.arg, 118, 128)))
    => ret.ok

\* C16: when the name bytes are not valid UTF-8, Voice::from_packed_bytes and
\* Voice::from_bytes return an invalid-UTF-8 error and do not panic.
C16_NameEncoding ==
    /\ (pc = "done" /\ call.fn = "Voice::from_packed_bytes" /\ ~call.hasSrc
            /\ Len(call.arg) = 128 /\ ~IsAscii(Slice(call.arg, 118, 128)))
        => ret = Err("invalid UTF-8")
    /\ (pc = "done" /\ call.fn = "Voice::from_bytes"
            /\ Len(call.arg) = 155 /\ ~IsAscii(Slice(call.arg, 145, 155)))
        => ret = Err("invalid UTF-8")

ChecksumOf(d, lo, hi) == ((255 - (SumRange(d, lo, hi) % 256)) % 128) + 1

\* C18: the message of run() is F0 43 00 09 20 00, the 4096 data bytes, the
\* checksum of those 4096 bytes alone, F7: 4104 bytes.  The payload of
\* generate_cartridge is 00 09 20 00, the 4096 data bytes and their checksum,
\* for manufacturer 43.
C18_MessageFraming ==
    /\ (pc = "done" /\ call.fn = "lib::run")
        => /\ ret.ok
           /\ Len(ret.val) = 4104
           /\ Slice(ret.val, 0, 6) = <<240, 67, 0, 9, 32, 0>>
           /\ Slice(ret.val, 6, 4102)
                = Lib_CartridgeData(Lib_make_random_cartridge(call.arg), 32)
           /\ At(ret.val, 4102) = ChecksumOf(ret.val, 7, 4102)
           /\ At(ret.val, 4103) = 247
    /\ (pc = "done" /\ call.fn = "generate_cartridge")
        => /\ ret.ok
           /\ ret.val.manufacturer = 67
           /\ Len(ret.val.payload) = 4101
           /\ Slice(ret.val.payload, 0, 4) = <<0, 9, 32, 0>>
           /\ Ok(Slice(ret.val.payload, 4, 4100))
                = Cartridge_to_packed_bytes(make_random_cartridge(call.arg))
           /\ At(ret.val.payload, 4100) = ChecksumOf(ret.val.payload, 5, 4100)

\* run() has written a message of 4104 bytes from F0 to F7
C18_Witness ==
    /\ pc = "done"
    /\ call.fn = "lib::run"
    /\ ret.ok
    /\ Len(ret.val) = 4104
    /\ At(ret.val, 0) = 240
    /\ At(ret.val, 4103) = 247
    /\ At(ret.val, 4102) = Lib_voice_checksum(Slice(ret.val, 6, 4102))

\* C19: Transpose::new(t).as_byte() is (t + 2) * 12 and from_byte of that
\* byte is t, for t in -2..2 (+1 gives 36, 24 gives 0, 12 gives -1); from_byte
\* of every byte is in -2..2.
C19_TransposeScaling ==
    /\ (pc = "done" /\ call.fn = "Transpose::as_byte")
        => /\ ret.ok
           /\ call.arg \in -2..2
           /\ ret.val = (call.arg + 2) * 12
           /\ call.arg = 1 => ret.val = 36
    /\ (pc = "done" /\ call.fn = "Transpose::from_byte")
        => /\ ret.ok
           /\ ret.val \in -2..2
           /\ call.hasSrc => ret.val = call.src
           /\ call.arg = 24 => ret.val = 0
           /\ call.arg = 12 => ret.val = -1

\* -1 octave is written as 12 and read back as -1
C19_Witness ==
    /\ pc = "done"
    /\ call.fn = "Transpose::from_byte"
    /\ call.hasSrc
    /\ call.src = -1
    /\ call.arg = 12
    /\ ret.val = -1

\* sync | waveform << 1 | pitch_mod_sens << 4
B116(sync, wave, pms) ==
    (IF sync THEN 1 ELSE 0) + 2 * LfoWaveform_as_u8(wave) + 16 * pms

WaveformOf(w) == IF w <= 5 THEN LfoWaveform[w + 1] ELSE "Triangle"

\* C21: Lfo::from_packed_bytes maps the waveform field (bits 1-3 of byte 4)
\* 0..5 to Triangle, SawDown, SawUp, Square, Sine, SampleAndHold and 6, 7 to
\* Triangle, without failing; Lfo::from_bytes does the same with the
\* waveform byte, every value above 5 giving Triangle.
C21_LenientWaveform ==
    /\ LfoWaveform = <<"Triangle", "SawDown", "SawUp", "Square", "Sine",
                       "SampleAndHold">>
    /\ (pc = "done" /\ call.fn = "Lfo::from_packed_bytes" /\ ~call.hasSrc)
        => /\ ret.ok
           /\ ret.val.wave = WaveformOf((At(call.arg, 4) \div 2) % 8)
    /\ (pc = "done" /\ call.fn = "Lfo::from_bytes")
        => /\ ret.ok
           /\ ret.val.wave = WaveformOf(At(call.arg, 5))

\* a packed LFO with the waveform field 7 is decoded, to Triangle
C21_Witness ==
    /\ pc = "done"
    /\ call.fn = "Lfo::from_packed_bytes"
    /\ call.arg = <<37, 0, 5, 0, 14>>
    /\ ret.ok
    /\ ret.val.wave = "Triangle"

\* the 13 bytes after the envelope of an unpacked operator, of dx7.rs or lib.rs
UnpackedFields(fn, op) ==
    <<op.kbd_level_scaling.breakpoint, op.kbd_level_scaling.left_depth,
      op.kbd_level_scaling.right_depth,
      CurveCode(op.kbd_level_scaling.left_curve),
      CurveCode(op.kbd_level_scaling.right_curve),
      op.kbd_rate_scaling, op.amp_mod_sens, op.key_vel_sens,
      IF fn = "Operator::to_bytes" THEN op.output_level ELSE op.output_level.value,
      IF op.mode = "Fixed" THEN 1 ELSE 0,
      IF fn = "Operator::to_bytes" THEN op.coarse ELSE op.coarse.value,
      IF fn = "Operator::to_bytes" THEN op.fine ELSE op.fine.value,
      op.detune + 7>>

\* C22: Operator::to_bytes (dx7.rs and lib.rs) returns 21 bytes, one field
\* per byte: the 8 envelope bytes, breakpoint, left depth, right depth, left
\* curve, right curve, kbd_rate_scaling, amp_mod_sens, key_vel_sens,
\* output_level, mode, coarse, fine, detune; and Operator::from_bytes of these
\* 21 bytes completes, with every field read from the offset where to_bytes
\* wrote it (the value read at the detune's offset is the matter of C8).
C22_UnpackedOperator ==
    /\ (pc = "done" /\ call.fn = "Operator::to_bytes")
        => /\ ret.ok
           /\ ret.val = (call.arg.eg.rates \o call.arg.eg.levels)
                            \o UnpackedFields(call.fn, call.arg)
    /\ (pc = "done" /\ call.fn = "lib::Operator::to_bytes")
        => /\ ret.ok
           /\ ret.val = Lib_EnvelopeGenerator_to_bytes(call.arg.eg)
                            \o UnpackedFields(call.fn, call.arg)
    /\ (pc = "done" /\ call.fn = "Operator::from_bytes" /\ call.hasSrc)
        => /\ Len(call.arg) = 21
           /\ ret.ok
           /\ [ret.val EXCEPT !.detune = 0] = [call.src EXCEPT !.detune = 0]
    /\ (pc = "done" /\ call.fn = "lib::Operator::from_bytes" /\ call.hasSrc)
        => /\ Len(call.arg) = 21
           /\ ret.ok
           /\ ret.val.kbd_rate_scaling = call.src.kbd_rate_scaling
           /\ ret.val.amp_mod_sens = call.src.amp_mod_sens
           /\ ret.val.key_vel_sens = call.src.key_vel_sens
           /\ ret.val.output_level.value = call.src.output_level.value
           /\ ret.val.mode = call.src.mode
           /\ ret.val.coarse.value = call.src.coarse.value
           /\ ret.val.fine.value = call.src.fine.value

\* C23: KeyboardLevelScaling::from_bytes(k.to_bytes()) (dx7.rs and lib.rs)
\* has the left curve of k, read from byte 3, and the right curve of k, read
\* from byte 4, for all 16 pairs of curves.
C23_UnpackedCurves ==
    (pc = "done" /\ call.hasSrc
        /\ call.fn \in {"KeyboardLevelScaling::from_bytes",
                        "lib::KeyboardLevelScaling::from_bytes"})
    => /\ ret.ok
       /\ At(call.arg, 3) = CurveCode(call.src.left_curve)
       /\ At(call.arg, 4) = CurveCode(call.src.right_curve)
       /\ ret.val.left_curve = call.src.left_curve
       /\ ret.val.right_curve = call.src.right_curve

\* C24: to_bytes of an envelope (dx7.rs packed and unpacked, lib.rs) is rate1
\* to rate4 then level1 to level4, and from_bytes of these 8 bytes is the
\* envelope again: the same values and, in lib.rs, the same range kinds.
C24_EnvelopeMapping ==
    /\ (pc = "done" /\ call.fn = "Envelope::to_bytes")
        => (ret.ok /\ ret.val = call.arg.eg.rates \o call.arg.eg.levels)
    /\ (pc = "done" /\ call.fn = "Envelope::from_bytes" /\ call.hasSrc)
        => (ret.ok /\ ret.val = call.src.eg)
    /\ (pc = "done" /\ call.fn = "lib::EnvelopeGenerator::to_bytes")
        => /\ ret.ok
           /\ ret.val = <<call.arg.rate1.value, call.arg.rate2.value,
                           call.arg.rate3.value, call.arg.rate4.value,
                           call.arg.level1.value, call.arg.level2.value,
                           call.arg.level3.value, call.arg.level4.value>>
    /\ (pc = "done" /\ call.fn = "lib::EnvelopeGenerator::from_bytes" /\ call.hasSrc)
        => (ret.ok /\ ret.val = call.src)

\* C25: the checksum of every byte sequence d is a 7-bit byte, and the sum of
\* the bytes of d plus the checksum is 0 modulo 128 (dx7.rs and lib.rs).
C25_ChecksumSevenBit ==
    (pc = "done" /\ call.fn \in {"voice_checksum", "lib::voice_checksum"})
    => /\ ret.ok
       /\ ret.val <= 127
       /\ (SumBytes(call.arg) + ret.val) % 128 = 0

\* C26: Detune::get_value of Detune::new(d), d in -7..7, returns d and does
\* not fail, and displaying an operator with such a detune completes and
\* shows the detune.
C26_DetuneGetValue ==
    /\ (pc = "done" /\ call.fn = "Detune::get_value" /\ call.hasSrc)
        => (ret.ok /\ ret.val = call.src)
    /\ (pc = "done" /\ call.fn = "Operator::fmt")
        => (ret.ok /\ ret.val.detune = call.arg.detune)

\* the step that reads the end tag of the innermost open element
Closes(name) ==
    /\ Running
    /\ Top.name = name
    /\ Len(xml'.stack) = Len(xml.stack) - 1

\* the innermost open element is inside an <operator> element
InOperator == \E i \in 1..Len(xml.stack) : xml.stack[i].name = "operator"

\* C27: when </eg> is read inside an <operator>, the envelope parsed from
\* its <rates> and <levels> becomes the current operator's eg and the voice's
\* peg stays as it was; the voice's peg changes only at the end of an
\* envelope element that is not inside an operator.
C27_EnvelopeRouting ==
    [][/\ (Closes("eg") /\ InOperator)
           => /\ xml'.operator.eg = xml.eg
              /\ xml'.voice.peg = xml.voice.peg
       /\ (xml'.voice.peg # xml.voice.peg)
           => /\ Closes("eg") \/ Closes("peg")
              /\ ~InOperator]_vars

\* C28: when the end of the k-th <operator> of a voice is read, k in 1..6,
\* the operator parsed so far is voice.operators[k - 1]; at </voice> the voice
\* built is copied into cartridge.voices[voice_index] and operator_index is 0
\* again.
C28_OperatorStorage ==
    [][/\ (/\ Closes("operator")
           /\ xml.stack[Len(xml.stack) - 1].name = "operators"
           /\ xml.operator_index < OPERATOR_COUNT)
           => /\ xml'.voice.operators[xml.operator_index + 1] = xml.operator
              /\ xml'.operator_index = xml.operator_index + 1
       /\ (Closes("voice") /\ xml.voice_index < VOICE_COUNT)
           => /\ xml'.cartridge.voices[xml.voice_index + 1] = xml'.voice
              /\ xml'.voice_index = xml.voice_index + 1
              /\ xml'.operator_index = 0]_vars

\* C29: for a cartridge of 32 voices, run_dump with Some(n), n in 1..32,
\* prints exactly voice n, and with None prints the 32 voices in order; for
\* any other n it reports an error or prints nothing and does not panic on an
\* index or on n - 1.  dump (dx7.rs) prints voice n for n in 1..32 and does
\* not panic for n above 32.
C29_DumpVoiceNumber ==
    /\ (pc = "done" /\ call.fn = "run_dump")
        => IF ~call.arg.number.some
           THEN ret.ok /\ ret.val = call.arg.cartridge.voices
           ELSE IF call.arg.number.n \in 1..VOICE_COUNT
           THEN ret.ok /\ ret.val = <<call.arg.cartridge.voices[call.arg.number.n]>>
           ELSE (ret.ok /\ ret.val = <<>>) \/ (~ret.ok /\ ret.val # "panic")
    /\ (pc = "done" /\ call.fn = "dump" /\ At(call.arg.data, 3) = 9)
        => IF call.arg.voice_number = 0
           THEN ret.ok /\ Len(ret.val) = VOICE_COUNT
           ELSE IF call.arg.voice_number \in 1..VOICE_COUNT
           THEN ret.ok /\ Len(ret.val) = 1
                  /\ ret.val[1].alg = call.arg.voice_number
           ELSE (ret.ok /\ ret.val = <<>>) \/ (~ret.ok /\ ret.val # "panic")

\* the values of the random fields of a voice of dx7.rs, and their ranges
RandomFields(v) ==
    {<<v.alg, "Algorithm">>, <<v.lfo.speed, "UnsignedLevel">>,
     <<v.lfo.delay, "UnsignedLevel">>, <<v.lfo.pmd, "UnsignedLevel">>,
     <<v.lfo.amd, "UnsignedLevel">>, <<v.lfo.pitch_mod_sens, "Depth">>}
    \cup UNION {{<<v.operators[i].output_level, "UnsignedLevel">>}
                  \cup {<<v.operators[i].eg.rates[j], "UnsignedLevel">> : j \in 1..4}
                  \cup {<<v.operators[i].eg.levels[j], "UnsignedLevel">> : j \in 1..4}
                : i \in 1..OPERATOR_COUNT}

\* the random fields of a voice of lib.rs
LibRandomFields(v) ==
    {v.lfo.speed, v.lfo.delay, v.lfo.pmd, v.lfo.amd}
    \cup UNION {{op.output_level, op.eg.rate1, op.eg.rate2, op.eg.rate3,
                  op.eg.rate4, op.eg.level1, op.eg.level2, op.eg.level3,
                  op.eg.level4}
                : op \in {v.op1, v.op2, v.op3, v.op4, v.op5, v.op6}}

\* C30: the 32 voices of a random cartridge are drawn one by one, so that
\* with draws that differ from call to call two voices of the cartridge
\* differ (dx7.rs and lib.rs), and every random field is within the
\* inclusive range of its kind.
C30_IndependentVoices ==
    /\ (pc = "done" /\ call.fn = "make_random_cartridge")
        => /\ ret.ok
           /\ Len(ret.val.voices) = VOICE_COUNT
           /\ \E i, j \in 1..VOICE_COUNT : ret.val.voices[i] # ret.val.voices[j]
           /\ \A i \in 1..VOICE_COUNT : \A f \in RandomFields(ret.val.voices[i]) :
                 f[1] \in get_range(f[2])
    /\ (pc = "done" /\ call.fn = "lib::make_random_cartridge")
        => /\ ret.ok
           /\ Len(ret.val) = VOICE_COUNT
           /\ \E i, j \in 1..VOICE_COUNT : ret.val[i] # ret.val[j]
           /\ \A i \in 1..VOICE_COUNT : \A f \in LibRandomFields(ret.val[i]) :
                 f.value \in f.range.start..f.range.end

(***************************************************************************)
(* C5 and C6: RangedValue                                                  *)
(***************************************************************************)
\* C5: after any sequence of from_byte, from_int, new_min, new_max and set,
\* the stored value lies within the range: range.start <= value <= range.end.
C5_RangeInvariant ==
    rv.range.start <= rv.value /\ rv.value <= rv.range.end

\* C6: from_int(kind, x).get() and the value left by set(x) equal x inside
\* the kind's range, the range end above it and the range start below it
\* (OutputLevel 100 gives 99, set(-100) on an OutputLevel gives 0).
C6_Clamping ==
    rvOp.op \in {"from_int", "set"} =>
        LET lo == make_range(rvOp.kind).start
            hi == make_range(rvOp.kind).end
            x  == rvOp.x
        IN /\ rv.kind = rvOp.kind
           /\ (x >= lo /\ x <= hi) => RangedValue_get(rv) = x
           /\ x > hi => RangedValue_get(rv) = hi
           /\ x < lo => RangedValue_get(rv) = lo
           /\ (rvOp.kind = "OutputLevel" /\ x = 100) => RangedValue_get(rv) = 99
           /\ (rvOp.kind = "OutputLevel" /\ x = -100) => RangedValue_get(rv) = 0

\* an OutputLevel that was out of range is set to -100 and reads 0
C6_Witness ==
    /\ rvOp.op = "set"
    /\ rvOp.kind = "OutputLevel"
    /\ rvOp.x = -100
    /\ RangedValue_get(rv) = 0

====
